---- MODULE Spec2Model ----
(***************************************************************************)
(* A model of pdm, the terminal editor of bitcoin.conf files:              *)
(*   - the schema catalog, parse_config and BitcoinConfigFile (config.rs); *)
(*   - the navigation state machine App (app.rs).                          *)
(*                                                                         *)
(* Strings are sequences of atoms.  An atom is either a word (a run of     *)
(* ordinary characters that no parser ever splits, written as one TLA+     *)
(* string such as "txindex" or "8332") or one of the characters the file   *)
(* format gives a meaning to: " ", "=", ":", ".", "#", ";", "[", "]".      *)
(* A text is a sequence of lines, each line a string without its "\n".     *)
(* Keys and values never hold a line break.                                *)
(***************************************************************************)
EXTENDS Integers, Sequences, FiniteSets, TLC

\* ------------------------------------------------------------------ bounds

\* Most key=value lines of a file given to parse_config.
MaxLines == 2

\* Most mutations applied to a Document in one run.
MaxOps == 4

\* Most entry-changing key presses handled by the App in one run.
MaxEdits == 1

\* Most atoms of the edit buffer.
MaxBuf == 1

\* ------------------------------------------------------------ string helpers

RECURSIVE TrimLeft(_)
TrimLeft(s) ==
    IF s # <<>> /\ Head(s) = " " THEN TrimLeft(Tail(s)) ELSE s

RECURSIVE TrimRight(_)
TrimRight(s) ==
    IF s # <<>> /\ s[Len(s)] = " " THEN TrimRight(SubSeq(s, 1, Len(s) - 1)) ELSE s

Trim(s) == TrimRight(TrimLeft(s))

\* First index of an atom of `atoms` in s, 0 when there is none.
IndexOfAny(s, atoms) ==
    IF \E i \in 1..Len(s) : s[i] \in atoms
    THEN CHOOSE i \in 1..Len(s) : s[i] \in atoms /\ \A j \in 1..(i - 1) : s[j] \notin atoms
    ELSE 0

\* Last index of an atom of `atoms` in s, 0 when there is none.
LastIndexOfAny(s, atoms) ==
    IF \E i \in 1..Len(s) : s[i] \in atoms
    THEN CHOOSE i \in 1..Len(s) : s[i] \in atoms /\ \A j \in (i + 1)..Len(s) : s[j] \notin atoms
    ELSE 0

Contains(s, a) == \E i \in 1..Len(s) : s[i] = a

\* All sequences of distinct elements that enumerate the finite set S.
Orders(S) ==
    { f \in [1..Cardinality(S) -> S] : \A i, j \in 1..Cardinality(S) : i # j => f[i] # f[j] }

\* Option<T>: <<>> is None, <<x>> is Some(x).
None == <<>>
Some(x) == <<x>>

\* --------------------------------------------------------------- the catalog

\* get_default_schema(): three of its 126 records, in the source's order.
get_default_schema ==
    << [key |-> <<"pid">>, default |-> <<>>, config_type |-> "Path", category |-> "Core"],
       [key |-> <<"txindex">>, default |-> <<"0">>, config_type |-> "Bool", category |-> "Core"],
       [key |-> <<"rpcport">>, default |-> <<"8332">>, config_type |-> "Int", category |-> "RPC"] >>

CatalogKeys == { get_default_schema[i].key : i \in 1..Len(get_default_schema) }

SchemaOf(k) == CHOOSE s \in { get_default_schema[i] : i \in 1..Len(get_default_schema) } : s.key = k

BoolKeys == { k \in CatalogKeys : SchemaOf(k).config_type = "Bool" }

\* ConfigEntry
ConfigEntry(k, v, sch, en) == [key |-> k, value |-> v, schema |-> sch, enabled |-> en]

\* The entries both parse_config's fallback and BitcoinConfigFile::new build:
\* one per schema, at its default, disabled.
DefaultEntries ==
    [ i \in 1..Len(get_default_schema) |->
        ConfigEntry(get_default_schema[i].key, get_default_schema[i].default,
                    Some(get_default_schema[i]), FALSE) ]

\* ------------------------------------------------- the INI source (config crate)

\* A finite map with no keys.
EmptyMap == [k \in {} |-> <<>>]

\* m with key k bound to v (a later insert of the same key replaces the earlier).
Put(m, k, v) == [x \in (DOMAIN m) \cup {k} |-> IF x = k THEN v ELSE m[x]]

\* One line ends a key only at "=" or ":"; "#" and ";" open a comment line.
Delimiters == {"=", ":"}
CommentMarks == {"#", ";"}

\* File::from(path).format(FileFormat::Ini), the line-oriented reading of a text:
\* blank and comment lines are skipped, "[name]" opens a section, every other
\* line is key, delimiter, value with both sides trimmed; a key that meets no
\* delimiter runs on into the next line and is an error at the end of the text.
\* st = [ok, general, secs]: the keys before any header, and the sections in
\* file order as <<name, properties>> (the open section is the last one).
RECURSIVE IniFold(_, _)
IniFold(lines, st) ==
    IF lines = <<>> \/ ~st.ok THEN st
    ELSE LET t == TrimLeft(Head(lines))
             rest == Tail(lines)
             d == IndexOfAny(t, Delimiters)
             close == IndexOfAny(t, {"]"})
         IN  IF t = <<>> THEN IniFold(rest, st)
             ELSE IF Head(t) \in CommentMarks THEN IniFold(rest, st)
             ELSE IF Head(t) = "["
                  THEN IF close = 0
                       THEN [st EXCEPT !.ok = FALSE]
                       ELSE IniFold(<<SubSeq(t, close + 1, Len(t))>> \o rest,
                                    [st EXCEPT !.secs = Append(@, <<Trim(SubSeq(t, 2, close - 1)), EmptyMap>>)])
             ELSE IF d = 1 THEN [st EXCEPT !.ok = FALSE]
             ELSE IF d = 0
                  THEN IF rest = <<>>
                       THEN [st EXCEPT !.ok = FALSE]
                       ELSE IniFold(<<t \o <<"\n">> \o Head(rest)>> \o Tail(rest), st)
             ELSE LET k == Trim(SubSeq(t, 1, d - 1))
                      v == Trim(SubSeq(t, d + 1, Len(t)))
                  IN  IF st.secs = <<>>
                      THEN IniFold(rest, [st EXCEPT !.general = Put(@, k, v)])
                      ELSE IniFold(rest, [st EXCEPT !.secs[Len(st.secs)][2] = Put(@, k, v)])

IniLoad(text) == IniFold(text, [ok |-> TRUE, general |-> EmptyMap, secs |-> <<>>])

\* A value of the built Config: a string, or a table of strings.
StringNode(s) == [kind |-> "String", s |-> s, t |-> EmptyMap]
TableNode(t) == [kind |-> "Table", s |-> <<>>, t |-> t]

\* The root table of the source: every key before the first header is a string,
\* every section is a table stored under its name, replacing what the name held.
\* (Top-level keys are single identifiers in every file the model reads.)
RECURSIVE PutSections(_, _)
PutSections(root, secs) ==
    IF secs = <<>> THEN root
    ELSE PutSections(Put(root, Head(secs)[1], TableNode(Head(secs)[2])), Tail(secs))

IniRoot(ini) ==
    PutSections([k \in DOMAIN ini.general |-> StringNode(ini.general[k])], ini.secs)

\* Mutant of BuildConfig: a source that fails to parse still yields what was
\* read before the failure.
BuildConfig_Lenient(file) ==
    IF ~file.exists THEN [ok |-> TRUE, root |-> EmptyMap]
    ELSE [ok |-> TRUE, root |-> IniRoot(IniLoad(file.text))]

\* builder.build(): no source when the path does not exist (an empty Config),
\* an error when the source does not parse.  file = [exists, text].
BuildConfig(file) ==
    IF ~file.exists THEN [ok |-> TRUE, root |-> EmptyMap]
    ELSE LET ini == IniLoad(file.text)
         IN  IF ini.ok THEN [ok |-> TRUE, root |-> IniRoot(ini)]
             ELSE [ok |-> FALSE, root |-> EmptyMap]

\* ------------------------------------------------------ Config lookups

Err == [ok |-> FALSE, val |-> <<>>]
Ok(v) == [ok |-> TRUE, val |-> v]

\* A lookup key is a path of identifiers separated by "."; the empty string is
\* no path.  The segments of a path, <<>> when it does not parse.
RECURSIVE PathSegments(_)
PathSegments(p) ==
    LET dot == IndexOfAny(p, {"."})
    IN  IF p = <<>> THEN <<>>
        ELSE IF dot = 0 THEN <<p>>
        ELSE IF dot = 1 THEN <<>>
        ELSE LET more == PathSegments(SubSeq(p, dot + 1, Len(p)))
             IN  IF more = <<>> THEN <<>> ELSE <<SubSeq(p, 1, dot - 1)>> \o more

\* config.get(path): the node at the path, if any.
ConfigGet(root, p) ==
    LET segs == PathSegments(p)
    IN  IF segs = <<>> THEN Err
        ELSE IF segs[1] \notin DOMAIN root THEN Err
        ELSE IF Len(segs) = 1 THEN Ok(root[segs[1]])
        ELSE IF Len(segs) = 2 /\ root[segs[1]].kind = "Table" /\ segs[2] \in DOMAIN root[segs[1]].t
             THEN Ok(StringNode(root[segs[1]].t[segs[2]]))
        ELSE Err

\* The texts the crate reads as a boolean, an integer, a float.
TrueTexts == { <<"1">>, <<"true">>, <<"on">>, <<"yes">> }
FalseTexts == { <<"0">>, <<"false">>, <<"off">>, <<"no">> }
IntTexts == { <<"0">>, <<"1">>, <<"8332">>, <<"18332">> }

\* config.get_string: a string value verbatim; a table is not a string.
get_string(root, p) ==
    LET n == ConfigGet(root, p)
    IN  IF n.ok /\ n.val.kind = "String" THEN Ok(n.val.s) ELSE Err

\* config.get_bool
get_bool(root, p) ==
    LET n == ConfigGet(root, p)
    IN  IF n.ok /\ n.val.kind = "String" /\ n.val.s \in TrueTexts THEN Ok(TRUE)
        ELSE IF n.ok /\ n.val.kind = "String" /\ n.val.s \in FalseTexts THEN Ok(FALSE)
        ELSE Err

\* config.get_int followed by to_string (an integer prints as it was read).
get_int(root, p) ==
    LET n == ConfigGet(root, p)
    IN  IF n.ok /\ n.val.kind = "String" /\ n.val.s \in IntTexts THEN Ok(n.val.s) ELSE Err

\* config.get_float followed by to_string.
get_float(root, p) ==
    LET n == ConfigGet(root, p)
    IN  IF n.ok /\ n.val.kind = "String" /\ n.val.s \in IntTexts THEN Ok(n.val.s) ELSE Err

\* config.get_table: the keys of a table; "" is no path.
get_table(root, p) ==
    LET n == ConfigGet(root, p)
    IN  IF n.ok /\ n.val.kind = "Table" THEN Ok(n.val.t) ELSE Err


\* ------------------------------------------------------------ parse_config

\* Mutant of probe_sections: test is probed before main.
probe_sections_TestFirst == << <<>>, <<"test">>, <<"main">>, <<"signet">>, <<"regtest">> >>

\* let sections = vec!["", "main", "test", "signet", "regtest"] in parse_config
\* (named apart from App::sections).
probe_sections == << <<>>, <<"main">>, <<"test">>, <<"signet">>, <<"regtest">> >>

\* lookup_key: the key itself in the unnamed section, "section.key" otherwise.
lookup_key(section, key) == IF section = <<>> THEN key ELSE section \o <<".">> \o key

\* actual_key: what follows the last "." of a table key.
actual_key(key) ==
    IF Contains(key, ".") THEN SubSeq(key, LastIndexOfAny(key, {"."}) + 1, Len(key)) ELSE key

\* Collect all keys from all sections.
config_keys(root) ==
    UNION { IF get_table(root, probe_sections[i]).ok
            THEN { actual_key(k) : k \in DOMAIN get_table(root, probe_sections[i]).val }
            ELSE {} : i \in 1..Len(probe_sections) }

\* Mutant of Decode: the boolean decoding comes first and writes "0" for true.
Decode_BoolFirstSwapped(root, lk) ==
    IF get_bool(root, lk).ok THEN Ok(IF get_bool(root, lk).val THEN <<"0">> ELSE <<"1">>)
    ELSE IF get_string(root, lk).ok THEN get_string(root, lk)
    ELSE IF get_int(root, lk).ok THEN get_int(root, lk)
    ELSE get_float(root, lk)

\* One probe: get_string, get_bool (as "1"/"0"), get_int, get_float, the first
\* that succeeds.
Decode(root, lk) ==
    IF get_string(root, lk).ok THEN get_string(root, lk)
    ELSE IF get_bool(root, lk).ok THEN Ok(IF get_bool(root, lk).val THEN <<"1">> ELSE <<"0">>)
    ELSE IF get_int(root, lk).ok THEN get_int(root, lk)
    ELSE get_float(root, lk)

\* for section in &sections { ... break; }: the first section, from the i-th on,
\* whose probe succeeds.
RECURSIVE Probe(_, _, _)
Probe(root, key, i) ==
    IF i > Len(probe_sections) THEN Err
    ELSE IF Decode(root, lookup_key(probe_sections[i], key)).ok
         THEN Decode(root, lookup_key(probe_sections[i], key))
         ELSE Probe(root, key, i + 1)

\* Mutant of SchemaPass: every entry is marked enabled, found or not.
SchemaPass_AlwaysEnabled(root) ==
    [ i \in 1..Len(get_default_schema) |->
        LET schema == get_default_schema[i]
            r == Probe(root, schema.key, 1)
        IN  ConfigEntry(schema.key, IF r.ok THEN r.val ELSE schema.default, Some(schema), TRUE) ]

\* Process known schema options: one entry per schema, in the catalog's order.
SchemaPass(root) ==
    [ i \in 1..Len(get_default_schema) |->
        LET schema == get_default_schema[i]
            r == Probe(root, schema.key, 1)
        IN  ConfigEntry(schema.key, IF r.ok THEN r.val ELSE schema.default, Some(schema), r.ok) ]

found_keys(root) ==
    { get_default_schema[i].key : i \in { j \in 1..Len(get_default_schema) :
                                              Probe(root, get_default_schema[j].key, 1).ok } }

\* Add unknown config keys (not in schema): the entry made for one collected key.
UnknownEntry(root, config_key) ==
    LET r == Probe(root, config_key, 1)
    IN  ConfigEntry(config_key, IF r.ok THEN r.val ELSE <<>>, None, TRUE)

\* The keys the unknown-key pass makes an entry for.
UnknownKeys(root) == { k \in config_keys(root) : k \notin found_keys(root) }

\* parse_config(path): the entry lists it can return.  config_keys is a HashSet,
\* so the schema-less entries follow the catalog's in any order.
parse_config(file) ==
    LET cfg == BuildConfig(file)
    IN  IF ~cfg.ok THEN { DefaultEntries }
        ELSE { SchemaPass(cfg.root) \o [ i \in 1..Len(o) |-> UnknownEntry(cfg.root, o[i]) ] :
                 o \in Orders(UnknownKeys(cfg.root)) }

\* ------------------------------------------------------- BitcoinConfigFile

\* get / get_mut: the position of the first entry with the key, 0 when none has it.
get(entries, key) ==
    IF \E i \in 1..Len(entries) : entries[i].key = key
    THEN CHOOSE i \in 1..Len(entries) :
             entries[i].key = key /\ \A j \in 1..(i - 1) : entries[j].key # key
    ELSE 0

\* Mutant of set: the value is stored but the entry is not enabled.
set_KeepFlag(entries, key, value) ==
    IF get(entries, key) # 0
    THEN [entries EXCEPT ![get(entries, key)].value = value]
    ELSE entries

\* set(key, value): the entries afterwards (the result is get(entries, key) # 0).
set(entries, key, value) ==
    IF get(entries, key) # 0
    THEN [entries EXCEPT ![get(entries, key)].value = value, ![get(entries, key)].enabled = TRUE]
    ELSE entries

\* enable(key)
enable(entries, key) ==
    IF get(entries, key) # 0 THEN [entries EXCEPT ![get(entries, key)].enabled = TRUE] ELSE entries

\* Mutant of disable: the disabled entry goes back to an empty value.
disable_ClearValue(entries, key) ==
    IF get(entries, key) # 0
    THEN [entries EXCEPT ![get(entries, key)].enabled = FALSE, ![get(entries, key)].value = <<>>]
    ELSE entries

\* disable(key)
disable(entries, key) ==
    IF get(entries, key) # 0 THEN [entries EXCEPT ![get(entries, key)].enabled = FALSE] ELSE entries

\* Mutant of add_custom: the entry is pushed without looking for the key.
add_custom_Push(entries, key, value) == Append(entries, ConfigEntry(key, value, None, TRUE))

\* add_custom(key, value)
add_custom(entries, key, value) ==
    IF get(entries, key) # 0
    THEN [entries EXCEPT ![get(entries, key)].value = value, ![get(entries, key)].enabled = TRUE]
    ELSE Append(entries, ConfigEntry(key, value, None, TRUE))

\* Mutant of RetainOthers: only the first entry with the key is dropped.
RetainOthers_FirstOnly(entries, key) ==
    IF get(entries, key) = 0 THEN entries
    ELSE SubSeq(entries, 1, get(entries, key) - 1)
         \o SubSeq(entries, get(entries, key) + 1, Len(entries))

\* remove(key): entries.retain(|e| e.key != key)
RetainOthers(entries, key) == SelectSeq(entries, LAMBDA e : e.key # key)
remove(entries, key) == RetainOthers(entries, key)

\* enabled_entries()
enabled_entries(entries) == SelectSeq(entries, LAMBDA e : e.enabled)

\* The category of an entry: that of its schema, None without one.
CategoryOf(e) == IF e.schema = None THEN None ELSE Some(e.schema[1].category)

\* ConfigCategory, in the order to_config_string sorts by (0..7; None is 8).
Categories == <<"Core", "Network", "RPC", "Wallet", "Debugging", "Mining", "Relay", "ZMQ">>
SortKey(cat) ==
    IF cat = None THEN Len(Categories) ELSE (CHOOSE i \in 1..Len(Categories) : Categories[i] = cat[1]) - 1

\* categorized_entries.sort_by_key: a stable sort, the entries of rank r, r + 1, ...
RECURSIVE SortedFrom(_, _)
SortedFrom(list, r) ==
    IF r > Len(Categories) THEN <<>>
    ELSE SelectSeq(list, LAMBDA e : SortKey(CategoryOf(e)) = r) \o SortedFrom(list, r + 1)

\* "# <Category>", "# Custom" for None.
CommentLine(cat) == <<"#", " ">> \o (IF cat = None THEN <<"Custom">> ELSE <<cat[1]>>)

\* format!("{}={}\n", entry.key, entry.value)
KeyValueLine(e) == e.key \o <<"=">> \o e.value

\* The loop of to_config_string over the sorted entries: a blank line and a
\* comment when the category differs from current_category, then the entry.
RECURSIVE EmitFrom(_, _)
EmitFrom(list, current_category) ==
    IF list = <<>> THEN <<>>
    ELSE LET category == CategoryOf(Head(list))
         IN  (IF category # current_category
              THEN (IF current_category # None THEN << <<>> >> ELSE <<>>) \o << CommentLine(category) >>
              ELSE <<>>)
             \o << KeyValueLine(Head(list)) >>
             \o EmitFrom(Tail(list), category)

\* Mutant of to_config_string: no "[main]" line is written.
to_config_string_NoHeader(entries) == EmitFrom(SortedFrom(enabled_entries(entries), 0), None)

\* to_config_string(): "[main]", then the enabled entries grouped by category.
to_config_string(entries) ==
    << <<"[", "main", "]">> >> \o EmitFrom(SortedFrom(enabled_entries(entries), 0), None)

\* ------------------------------------------- the calls made on a Document

\* The keys and values the Document's operations are called with.
DocKeys == { <<"txindex">>, <<"rpcport">>, <<"foo">> }
DocValues == { <<"1">>, <<" ", "1">> }

\* The file a Document's path may already name when the run starts: none, or a
\* file whose [main] section holds a dotted key.
DocFiles ==
    { [exists |-> FALSE, text |-> <<>>],
      [exists |-> TRUE, text |-> << <<"[", "main", "]">>, <<"x", ".", "txindex", "=", "1">> >>] }

\* ---------------------------------------------------------------- App

\* The file system the file explorer walks: the root directory holds the
\* directory /d, which holds the regular file /d/bitcoin.conf.
RootDir == "/"
WorkDir == "/d"
ConfFile == "/d/bitcoin.conf"
ParentMarker == "/d/.."
IsDir(path) == path \in { RootDir, WorkDir, ParentMarker }
HasParent(dir) == dir = WorkDir
ParentOf(dir) == RootDir

\* refresh_files(): ".." when the directory has a parent, then its children,
\* directories first.
Listing(dir) == IF dir = WorkDir THEN << ParentMarker, ConfFile >> ELSE << WorkDir >>

\* The selection refresh_files() leaves: clamped to the last file.
RefreshSelected(dir, sel) ==
    IF Listing(dir) = <<>> THEN None
    ELSE IF sel = None THEN Some(0)
    ELSE IF sel[1] >= Len(Listing(dir)) THEN Some(Len(Listing(dir)) - 1)
    ELSE sel

\* Mutant of select_next: the cursor stops on the last file.
select_next_Clamp(fs, sel) ==
    IF fs = <<>> THEN sel
    ELSE IF sel = None THEN Some(0)
    ELSE IF sel[1] >= Len(fs) - 1 THEN Some(Len(fs) - 1)
    ELSE Some(sel[1] + 1)

\* select_next(): the selection afterwards.
select_next(fs, sel) ==
    IF fs = <<>> THEN sel
    ELSE IF sel = None THEN Some(0)
    ELSE IF sel[1] >= Len(fs) - 1 THEN Some(0)
    ELSE Some(sel[1] + 1)

\* select_previous(): the selection afterwards.
select_previous(fs, sel) ==
    IF fs = <<>> THEN sel
    ELSE IF sel = None THEN Some(0)
    ELSE IF sel[1] = 0 THEN Some(Len(fs) - 1)
    ELSE Some(sel[1] - 1)

\* The name of the section load_config files an entry under: its schema's
\* category, "Custom" without a schema.
SectionNameOf(e) == IF e.schema = None THEN "Custom" ELSE e.schema[1].category

\* Whether Enter toggles the entry instead of opening the edit buffer.
IsBool(e) == e.schema # None /\ e.schema[1].config_type = "Bool"

\* The section names in the order of String::cmp.
NameOrder == <<"Core", "Custom", "Debugging", "Mining", "Network", "RPC", "Relay", "Wallet", "ZMQ">>

\* load_config: the entries grouped by section name, each group in the entries'
\* order, the groups sorted by name.
RECURSIVE SectionsFrom(_, _)
SectionsFrom(list, n) ==
    IF n > Len(NameOrder) THEN <<>>
    ELSE LET items == SelectSeq(list, LAMBDA e : SectionNameOf(e) = NameOrder[n])
         IN  (IF items = <<>> THEN <<>> ELSE << [name |-> NameOrder[n], items |-> items] >>)
             \o SectionsFrom(list, n + 1)

\* Mutant of BuildSections: the sections are sorted by name the other way round.
BuildSections_Descending(list) ==
    LET secs == SectionsFrom(list, 1)
    IN  [ i \in 1..Len(secs) |-> secs[Len(secs) + 1 - i] ]

BuildSections(list) == SectionsFrom(list, 1)

\* find_config_value(key): the value of the first enabled item with the key.
RECURSIVE FlattenFrom(_, _)
FlattenFrom(secs, n) ==
    IF n > Len(secs) THEN <<>> ELSE secs[n].items \o FlattenFrom(secs, n + 1)

Flatten(secs) == FlattenFrom(secs, 1)

find_config_value(secs, key) ==
    LET hits == SelectSeq(Flatten(secs), LAMBDA e : e.key = key /\ e.enabled)
    IN  IF hits = <<>> THEN None ELSE Some(hits[1].value)

\* What check_health() meets outside the program: the paths that exist among
\* those a pid value of the model resolves to, whether the pid file's content
\* reads as an integer, and what running `ps -p <pid>` gives.
PidPaths == { <<"s">>, <<"s", "s">> }
ProbeEnvs == [existing : SUBSET PidPaths, pid_read : BOOLEAN,
              query : { "success", "failure", "error" }]

\* The path check_health() looks for: the enabled pid value, joined to the
\* enabled datadir value when it is relative and there is one.
PidPath(secs) ==
    LET pid_path == find_config_value(secs, <<"pid">>)[1]
        datadir == find_config_value(secs, <<"datadir">>)
    IN  IF (pid_path # <<>> /\ pid_path[1] = "/") \/ datadir = None THEN pid_path
        ELSE datadir[1] \o <<"/">> \o pid_path

\* check_health(): the health_status it leaves. The empty path does not exist.
check_health(secs, env) ==
    IF find_config_value(secs, <<"pid">>) = None THEN None
    ELSE IF PidPath(secs) # <<>> /\ PidPath(secs) \in env.existing
         THEN IF env.pid_read /\ env.query # "error"
              THEN Some(env.query = "success")
              ELSE None
         ELSE Some(FALSE)

HealthOutcomes(secs) == { check_health(secs, env) : env \in ProbeEnvs }

\* Mutant of SaveSectionLines: the entries are written enabled or not.
SaveSectionLines_All(section) ==
    << <<"#", " ", "Section", ":", " ", section.name>> >>
    \o [ i \in 1..Len(section.items) |-> KeyValueLine(section.items[i]) ]
    \o << <<>> >>

\* The lines App::save_config writes for one section.
SaveSectionLines(section) ==
    IF \E i \in 1..Len(section.items) : section.items[i].enabled
    THEN << <<"#", " ", "Section", ":", " ", section.name>> >>
         \o [ i \in 1..Len(enabled_entries(section.items)) |->
                KeyValueLine(enabled_entries(section.items)[i]) ]
         \o << <<>> >>
    ELSE <<>>

\* The content App::save_config writes.
RECURSIVE SaveContentFrom(_, _)
SaveContentFrom(secs, n) ==
    IF n > Len(secs) THEN <<>> ELSE SaveSectionLines(secs[n]) \o SaveContentFrom(secs, n + 1)

SaveContent(secs) == SaveContentFrom(secs, 1)

\* Key events: a key code, the character of a Char code, the CONTROL modifier.
Key(code) == [code |-> code, ch |-> "", ctrl |-> FALSE]
CharKey(c) == [code |-> "Char", ch |-> c, ctrl |-> FALSE]
CtrlS == [code |-> "Char", ch |-> "s", ctrl |-> TRUE]
TypedChars == { "q", "j", "k", " " }
Keys ==
    { Key(c) : c \in { "Esc", "Enter", "Up", "Down", "Left", "Right", "Tab", "BackTab",
                       "Backspace" } }
    \cup { CharKey(c) : c \in TypedChars } \cup { CtrlS }

IsChar(key, c) == key.code = "Char" /\ key.ch = c
IsSaveCombo(key) == key.ctrl /\ IsChar(key, "s")

\* The files /d/bitcoin.conf starts as.
InitialTexts ==
    { << <<"txindex", "=", "true">>, <<"rpcport", "=", "18332">>,
         <<"[", "main", "]">>, <<"foo", "=", "1">> >> }

\* The key typed into the edit buffer: a character sent with the CONTROL
\* modifier held, which the Char arm takes as it takes any character.
BufferKeys == { CtrlS }

\* ------------------------------------------------- the files given to parse_config

\* A file is drawn as at most MaxLines key=value lines, each in the unnamed
\* section or under a [main] or [test] header, no key twice in one section,
\* optionally followed by a line that is no key=value line.
FileSections == << <<>>, <<"main">>, <<"test">> >>
FileKeys == { <<"txindex">>, <<"rpcport">>, <<"foo">>, <<"x", ".", "txindex">> }
FileValues == { <<"1">>, <<"0">>, <<"true">> }

Picks ==
    { p \in [sec : 1..Len(FileSections), key : FileKeys, value : FileValues] :
        p.sec = 1 => ~Contains(p.key, ".") }

PickSets ==
    { S \in UNION { { { f[i] : i \in 1..n } : f \in [1..n -> Picks] } : n \in 0..MaxLines } :
        \A p, q \in S : (p.sec = q.sec /\ p.key = q.key) => p = q }

\* The lines of one section of a drawn file: its header, then its keys.
SectionLines(S, i) ==
    LET mine == { p \in S : p.sec = i }
        o == CHOOSE f \in Orders(mine) : TRUE
    IN  IF mine = {} THEN <<>>
        ELSE (IF i = 1 THEN <<>> ELSE << <<"[">> \o FileSections[i] \o <<"]">> >>)
             \o [ j \in 1..Len(o) |-> o[j].key \o <<"=">> \o o[j].value ]

RECURSIVE FileLines(_, _)
FileLines(S, i) ==
    IF i > Len(FileSections) THEN <<>> ELSE SectionLines(S, i) \o FileLines(S, i + 1)

\* in = [exists, picks, broken]: the file on disk at the path.
FileOf(in) ==
    [exists |-> in.exists,
     text |-> FileLines(in.picks, 1) \o (IF in.broken THEN << <<"garbage">> >> ELSE <<>>)]

InputFiles ==
    { [exists |-> FALSE, picks |-> {}, broken |-> FALSE] }
    \cup { [exists |-> TRUE, picks |-> S, broken |-> b] : S \in PickSets, b \in BOOLEAN }

\* ------------------------------------------------------------------- state

VARIABLES
    input,      \* the file parse_config is called on
    parsed,     \* the entries parse_config returned
    pstate      \* "ready" before the call, "done" after

VARIABLES
    entries,    \* BitcoinConfigFile::entries
    saved,      \* the file at BitcoinConfigFile::path: [exists, text]
    ret,        \* the last call on the Document and what it returned
    nops        \* the number of calls made on the Document

VARIABLES
    running,                \* App::running
    current_screen,         \* App::current_screen
    config_file_path,       \* App::config_file_path
    current_dir,            \* App::file_explorer.current_dir
    files,                  \* App::file_explorer.files
    selected,               \* App::file_explorer.list_state.selected()
    sections,               \* App::sections
    selected_section_index, \* App::selected_section_index
    selected_item_index,    \* App::selected_item_index
    editing_value,          \* App::editing_value
    health_status,          \* App::health_status
    notification,           \* App::notification
    disk,                   \* the file /d/bitcoin.conf: [exists, text]
    edits,                  \* the number of entry-changing key presses handled
    press,                  \* the last press inside a list or the tab strip, where recorded
    save_result             \* what the last save_config call returned, where recorded

appVars == <<running, current_screen, config_file_path, current_dir, files, selected,
             sections, selected_section_index, selected_item_index, editing_value,
             health_status, notification, disk, edits, save_result, press>>

\* App::new(), before it meets a file.
AppIdle ==
    /\ running = TRUE
    /\ current_screen = "Main"
    /\ config_file_path = None
    /\ current_dir = WorkDir
    /\ files = Listing(WorkDir)
    /\ selected = Some(0)
    /\ sections = <<>>
    /\ selected_section_index = 0
    /\ selected_item_index = 0
    /\ editing_value = <<>>
    /\ health_status = None
    /\ notification = None
    /\ edits = 0
    /\ save_result = None
    /\ press = None

vars == <<input, parsed, pstate, entries, saved, ret, nops, appVars>>

parseVars == <<input, parsed, pstate>>
docVars == <<entries, saved, ret, nops>>

\* -------------------------------------------- specification: parse_config

InitParse ==
    /\ input \in InputFiles
    /\ parsed = <<>>
    /\ pstate = "ready"
    /\ entries = <<>> /\ saved = [exists |-> FALSE, text |-> <<>>]
    /\ ret = [op |-> "none"] /\ nops = 0
    /\ AppIdle /\ disk = [exists |-> FALSE, text |-> <<>>]

\* One call of parse_config on the drawn file.
ParseConfig ==
    /\ pstate = "ready"
    /\ parsed' \in parse_config(FileOf(input))
    /\ pstate' = "done"
    /\ UNCHANGED <<input, docVars, appVars>>

NextParse == ParseConfig

SpecParse == InitParse /\ [][NextParse]_vars


\* ------------------------------------------------- claims about parse_config

\* What the drawn file holds, read off the draw itself (not off the parser).
Readable == input.exists /\ ~input.broken
HoldsIn(i, k) == \E p \in input.picks : p.sec = i /\ p.key = k
Holds(k) == \E i \in 1..Len(FileSections) : HoldsIn(i, k)
FirstSection(k) == CHOOSE i \in 1..Len(FileSections) : HoldsIn(i, k) /\ \A j \in 1..(i - 1) : ~HoldsIn(j, k)
FoundValue(k) == (CHOOSE p \in input.picks : p.sec = FirstSection(k) /\ p.key = k).value
FileKeysPresent == { p.key : p \in input.picks }

\* The positions of the returned entries with key k.
EntriesOf(k) == { i \in 1..Len(parsed) : parsed[i].key = k }
\* The positions of the returned entries that carry k's schema.
SchemaEntriesOf(k) == { i \in 1..Len(parsed) : parsed[i].key = k /\ parsed[i].schema = Some(SchemaOf(k)) }

\* C4 (as stated): whatever the file, parse_config returns exactly one entry per
\* catalog key, carrying that key's schema, and no two returned entries share a
\* key.
C4_OneEntryPerCatalogKey ==
    pstate = "done" =>
        /\ \A k \in CatalogKeys : Cardinality(EntriesOf(k)) = 1 /\ EntriesOf(k) = SchemaEntriesOf(k)
        /\ \A i, j \in 1..Len(parsed) : parsed[i].key = parsed[j].key => i = j

\* C5 (as stated): every key of the file that is not in the catalog, in whichever
\* probed section it stands (the unnamed one included), comes back as a
\* schema-less enabled entry with the value of the first section holding it.
C5_UnknownKeysReturned ==
    (pstate = "done" /\ Readable) =>
        \A k \in FileKeysPresent \ CatalogKeys :
            \E i \in 1..Len(parsed) :
                parsed[i] = ConfigEntry(k, FoundValue(k), None, TRUE)

C8_FallbackToDefaults ==
    (pstate = "done" /\ ~Readable) =>
        /\ Len(parsed) = Len(get_default_schema)
        /\ \A i \in 1..Len(parsed) :
               /\ parsed[i].key = get_default_schema[i].key
               /\ parsed[i].schema = Some(get_default_schema[i])
               /\ parsed[i].value = get_default_schema[i].default
               /\ ~parsed[i].enabled

\* C8 witness: a file that holds keys and then fails to parse has been parsed.
C8_Witness ==
    /\ pstate = "done" /\ input.exists /\ input.broken
    /\ Holds(<<"txindex">>)
    /\ Len(parsed) = Len(get_default_schema)

InitDoc ==
    /\ entries = DefaultEntries
    /\ saved \in DocFiles
    /\ ret = [op |-> "new"]
    /\ nops = 0
    /\ input = [exists |-> FALSE, picks |-> {}, broken |-> FALSE]
    /\ parsed = <<>>
    /\ pstate = "idle"
    /\ AppIdle /\ disk = [exists |-> FALSE, text |-> <<>>]

DocSet(k, v) ==
    /\ nops < MaxOps
    /\ entries' = set(entries, k, v)
    /\ ret' = [op |-> "set", key |-> k, value |-> v, result |-> get(entries, k) # 0]
    /\ nops' = nops + 1
    /\ UNCHANGED <<saved, parseVars, appVars>>

DocEnable(k) ==
    /\ nops < MaxOps
    /\ entries' = enable(entries, k)
    /\ ret' = [op |-> "enable", key |-> k, value |-> <<>>, result |-> get(entries, k) # 0]
    /\ nops' = nops + 1
    /\ UNCHANGED <<saved, parseVars, appVars>>

DocDisable(k) ==
    /\ nops < MaxOps
    /\ entries' = disable(entries, k)
    /\ ret' = [op |-> "disable", key |-> k, value |-> <<>>, result |-> get(entries, k) # 0]
    /\ nops' = nops + 1
    /\ UNCHANGED <<saved, parseVars, appVars>>

DocAddCustom(k, v) ==
    /\ nops < MaxOps
    /\ entries' = add_custom(entries, k, v)
    /\ ret' = [op |-> "add_custom", key |-> k, value |-> v, result |-> TRUE]
    /\ nops' = nops + 1
    /\ UNCHANGED <<saved, parseVars, appVars>>

DocRemove(k) ==
    /\ nops < MaxOps
    /\ entries' = remove(entries, k)
    /\ ret' = [op |-> "remove", key |-> k, value |-> <<>>,
               result |-> Len(remove(entries, k)) < Len(entries)]
    /\ nops' = nops + 1
    /\ UNCHANGED <<saved, parseVars, appVars>>

\* save(): the file at path becomes to_config_string().
DocSave ==
    /\ nops < MaxOps
    /\ saved' = [exists |-> TRUE, text |-> to_config_string(entries)]
    /\ ret' = [op |-> "save", key |-> <<>>, value |-> <<>>, result |-> TRUE]
    /\ nops' = nops + 1
    /\ UNCHANGED <<entries, parseVars, appVars>>

\* BitcoinConfigFile::open(path): the Document is replaced by the parsed file.
DocOpen ==
    /\ nops < MaxOps
    /\ entries' \in parse_config(saved)
    /\ ret' = [op |-> "open", key |-> <<>>, value |-> <<>>, result |-> TRUE]
    /\ nops' = nops + 1
    /\ UNCHANGED <<saved, parseVars, appVars>>

NextDoc ==
    \/ \E k \in DocKeys, v \in DocValues : DocSet(k, v)
    \/ \E k \in DocKeys : DocEnable(k)
    \/ \E k \in DocKeys : DocDisable(k)
    \/ \E k \in DocKeys, v \in DocValues : DocAddCustom(k, v)
    \/ \E k \in DocKeys : DocRemove(k)
    \/ DocSave
    \/ DocOpen

SpecDoc == InitDoc /\ [][NextDoc]_vars

\* ---------------------------------------- claims about BitcoinConfigFile

\* The enabled entries of an entry list as a key -> value mapping.
EnabledMap(list) == { <<list[i].key, list[i].value>> : i \in { j \in 1..Len(list) : list[j].enabled } }

\* C1 (as stated): parsing the text to_config_string produces gives back the
\* enabled entries of the Document, same keys and same string values.
C1_RoundTrip ==
    \A reloaded \in parse_config([exists |-> TRUE, text |-> to_config_string(entries)]) :
        EnabledMap(reloaded) = EnabledMap(entries)

\* C3 (as stated): after any sequence of set, enable, disable, add_custom and
\* remove, every catalog key appears in the Document exactly once.
C3_CatalogKeysOnce ==
    \A k \in CatalogKeys : Cardinality({ i \in 1..Len(entries) : entries[i].key = k }) = 1

\* --------------------------------------- claims about the Document's mutations

\* Whether the step taken is a call of the operation op on the Document.
Called(op) == ret'.op = op /\ nops' = nops + 1

\* Whether some entry of a list has the key.
HasKey(list, key) == \E i \in 1..Len(list) : list[i].key = key

\* Whether after is before with exactly one entry, one that has the key,
\* replaced by what change makes of it.
OnlyChanged(before, after, key, change(_)) ==
    /\ Len(after) = Len(before)
    /\ \E i \in 1..Len(before) :
         /\ before[i].key = key
         /\ after[i] = change(before[i])
         /\ \A j \in 1..Len(before) : j # i => after[j] = before[j]

\* C11: set(key, value) on a missing key returns false and leaves the Document
\* as it was; on an existing key it returns true, the entry gets the value and
\* enabled = true, and every other entry is unchanged.
C11_SetContract ==
    [][ Called("set") =>
          IF HasKey(entries, ret'.key)
          THEN /\ ret'.result = TRUE
               /\ OnlyChanged(entries, entries', ret'.key,
                              LAMBDA e : [e EXCEPT !.value = ret'.value, !.enabled = TRUE])
          ELSE /\ ret'.result = FALSE
               /\ entries' = entries ]_vars

\* C11 witness: set has just returned true on an entry that now holds the value
\* and is enabled, in a Document that still has a disabled entry.
C11_Witness ==
    /\ ret.op = "set" /\ ret.result
    /\ \E i \in 1..Len(entries) :
         entries[i].key = ret.key /\ entries[i].value = ret.value /\ entries[i].enabled
    /\ \E j \in 1..Len(entries) : ~entries[j].enabled

\* C12: enable(key) and disable(key) set the enabled flag to true and to false,
\* leave the value, the schema and every other entry as they were, and return
\* true; on a missing key they return false and change nothing.
C12_EnableDisableContract ==
    [][ /\ Called("enable") =>
            IF HasKey(entries, ret'.key)
            THEN /\ ret'.result = TRUE
                 /\ OnlyChanged(entries, entries', ret'.key, LAMBDA e : [e EXCEPT !.enabled = TRUE])
            ELSE ret'.result = FALSE /\ entries' = entries
        /\ Called("disable") =>
            IF HasKey(entries, ret'.key)
            THEN /\ ret'.result = TRUE
                 /\ OnlyChanged(entries, entries', ret'.key, LAMBDA e : [e EXCEPT !.enabled = FALSE])
            ELSE ret'.result = FALSE /\ entries' = entries ]_vars

\* C12 witness: disable has just returned true on a catalog entry whose value
\* is not its default.
C12_Witness ==
    /\ ret.op = "disable" /\ ret.result
    /\ \E i \in 1..Len(entries) :
         /\ entries[i].key = ret.key /\ ~entries[i].enabled
         /\ entries[i].schema # None /\ entries[i].value # entries[i].schema[1].default

\* The entries of a list that have the key, and those that do not.
WithKey(list, key) == SelectSeq(list, LAMBDA e : e.key = key)
WithoutKey(list, key) == SelectSeq(list, LAMBDA e : e.key # key)

\* C13 (as stated): after add_custom(k, v1) and then add_custom(k, v2) on any
\* Document there is exactly one entry with key k, it holds v2 and is enabled,
\* and the Document has grown by at most one entry.
C13_AddCustomUpsert ==
    \A k \in DocKeys : \A v1, v2 \in DocValues :
        LET twice == add_custom(add_custom(entries, k, v1), k, v2)
        IN  /\ Len(WithKey(twice, k)) = 1
            /\ WithKey(twice, k)[1].value = v2
            /\ WithKey(twice, k)[1].enabled
            /\ Len(twice) <= Len(entries) + 1

\* C14 (as stated): after add_custom(key, value), for any key, the entry for
\* the key has no schema, holds the value and is enabled.
C14_AddCustomSchemaLess ==
    ret.op = "add_custom" =>
        /\ get(entries, ret.key) # 0
        /\ entries[get(entries, ret.key)].schema = None
        /\ entries[get(entries, ret.key)].value = ret.value
        /\ entries[get(entries, ret.key)].enabled

\* C15: remove(key) returns true if and only if an entry had the key; afterwards
\* no entry has it, and the entries with other keys are as they were, in the
\* same order.
C15_RemoveContract ==
    [][ Called("remove") =>
          /\ ret'.result = HasKey(entries, ret'.key)
          /\ get(entries', ret'.key) = 0
          /\ WithoutKey(entries', ret'.key) = WithoutKey(entries, ret'.key) ]_vars

\* C15 witness: remove has just returned true and left other entries behind.
C15_Witness ==
    /\ ret.op = "remove" /\ ret.result
    /\ ~HasKey(entries, ret.key)
    /\ entries # <<>>

\* ------------------------------------------ claims about the serialized text

\* The kinds of line of the file format.
IsHeaderLine(line) == line # <<>> /\ line[1] = "["
IsCommentLine(line) == line # <<>> /\ line[1] = "#"
IsKeyValueLine(line) ==
    line # <<>> /\ line[1] \notin { "#", "[" } /\ \E i \in 1..Len(line) : line[i] = "="
IsPlainLine(line) == line = <<>> \/ IsCommentLine(line) \/ IsKeyValueLine(line)

\* The groups of the stated order: the eight categories, then Custom.
GroupOrder == [ n \in 1..(Len(Categories) + 1) |->
                  IF n <= Len(Categories) THEN Some(Categories[n]) ELSE None ]

\* The text the stated grouping gives a list of enabled entries: for every
\* non-empty group from the n-th on, its comment line and its key=value lines,
\* a blank line between groups.
RECURSIVE GroupedFrom(_, _, _)
GroupedFrom(list, n, first) ==
    IF n > Len(GroupOrder) THEN <<>>
    ELSE LET group == SelectSeq(list, LAMBDA e : CategoryOf(e) = GroupOrder[n])
         IN  IF group = <<>> THEN GroupedFrom(list, n + 1, first)
             ELSE (IF first THEN <<>> ELSE << <<>> >>)
                  \o << CommentLine(GroupOrder[n]) >>
                  \o [ i \in 1..Len(group) |-> KeyValueLine(group[i]) ]
                  \o GroupedFrom(list, n + 1, FALSE)

\* C16 (as stated): below any header line, to_config_string writes one
\* "# <Category>" comment for every non-empty group of enabled entries, "# Custom"
\* included, in the fixed order, each followed by the group's key=value lines,
\* the groups one blank line apart.
C16_GroupedByCategory ==
    SelectSeq(to_config_string(entries), LAMBDA line : ~IsHeaderLine(line))
        = GroupedFrom(enabled_entries(entries), 1, TRUE)

\* ------------------------------------------------------------ App: the run loop

Init ==
    /\ AppIdle
    /\ disk \in { [exists |-> TRUE, text |-> t] : t \in InitialTexts }
    /\ input = [exists |-> FALSE, picks |-> {}, broken |-> FALSE]
    /\ parsed = <<>>
    /\ pstate = "idle"
    /\ entries = <<>>
    /\ saved = [exists |-> FALSE, text |-> <<>>]
    /\ ret = [op |-> "none"]
    /\ nops = 0

\* What no key or mouse event touches, and what no key event touches.
otherVars == <<parseVars, docVars>>
restVars == <<otherVars, press, save_result>>

explorerVars == <<current_dir, files, selected>>
editorVars == <<sections, selected_section_index, selected_item_index, editing_value, edits>>

\* The selected section and item, when both indices are in range.
HasSection == selected_section_index < Len(sections)
CurrentItems == sections[selected_section_index + 1].items
HasItem == HasSection /\ selected_item_index < Len(CurrentItems)
CurrentEntry == CurrentItems[selected_item_index + 1]

\* Mutant of WithEntry: the entry is written over the first item of the
\* selected section.
WithEntry_First(e) ==
    [sections EXCEPT ![selected_section_index + 1].items[1] = e]

\* sections with the selected entry replaced.
WithEntry(e) ==
    [sections EXCEPT ![selected_section_index + 1].items[selected_item_index + 1] = e]

\* handle_key_event on the Main screen: 'q' or Esc.
MainQuit(key) ==
    /\ running /\ current_screen = "Main"
    /\ IsChar(key, "q") \/ key.code = "Esc"
    /\ notification' = None
    /\ running' = FALSE
    /\ UNCHANGED <<current_screen, config_file_path, explorerVars, editorVars, health_status,
                   disk, restVars>>

\* handle_key_event on the Main screen: Enter.
MainEnter(key) ==
    /\ running /\ current_screen = "Main"
    /\ ~IsChar(key, "q") /\ key.code = "Enter"
    /\ notification' = None
    /\ current_screen' = "FileExplorer"
    /\ files' = Listing(current_dir)
    /\ selected' = RefreshSelected(current_dir, selected)
    /\ UNCHANGED <<running, config_file_path, current_dir, editorVars, health_status, disk,
                   restVars>>

\* handle_key_event on the Main screen: any other key.
MainOther(key) ==
    /\ running /\ current_screen = "Main"
    /\ ~IsChar(key, "q") /\ key.code \notin { "Esc", "Enter" }
    /\ notification' = None
    /\ UNCHANGED <<running, current_screen, config_file_path, explorerVars, editorVars,
                   health_status, disk, restVars>>

\* handle_key_event in the file explorer: Esc.
ExplorerEsc(key) ==
    /\ running /\ current_screen = "FileExplorer"
    /\ key.code = "Esc"
    /\ notification' = None
    /\ current_screen' = "Main"
    /\ UNCHANGED <<running, config_file_path, explorerVars, editorVars, health_status, disk,
                   restVars>>

\* handle_key_event in the file explorer: Up or 'k'.
ExplorerUp(key) ==
    /\ running /\ current_screen = "FileExplorer"
    /\ key.code = "Up" \/ IsChar(key, "k")
    /\ notification' = None
    /\ selected' = select_previous(files, selected)
    /\ UNCHANGED <<running, current_screen, config_file_path, current_dir, files, editorVars,
                   health_status, disk, restVars>>

\* handle_key_event in the file explorer: Down or 'j'.
ExplorerDown(key) ==
    /\ running /\ current_screen = "FileExplorer"
    /\ key.code = "Down" \/ IsChar(key, "j")
    /\ notification' = None
    /\ selected' = select_next(files, selected)
    /\ UNCHANGED <<running, current_screen, config_file_path, current_dir, files, editorVars,
                   health_status, disk, restVars>>

\* The file under the explorer's selection, if any.
HasSelectedFile == selected # None /\ selected[1] < Len(files)
SelectedFile == files[selected[1] + 1]

\* handle_key_event in the file explorer: Enter on "..", with a parent to go to.
ExplorerEnterParent(key) ==
    /\ running /\ current_screen = "FileExplorer"
    /\ key.code = "Enter"
    /\ HasSelectedFile /\ SelectedFile = ParentMarker /\ HasParent(current_dir)
    /\ notification' = None
    /\ current_dir' = ParentOf(current_dir)
    /\ files' = Listing(ParentOf(current_dir))
    /\ selected' = RefreshSelected(ParentOf(current_dir), Some(0))
    /\ UNCHANGED <<running, current_screen, config_file_path, editorVars, health_status, disk,
                   restVars>>

\* handle_key_event in the file explorer: Enter on a directory.
ExplorerEnterDir(key) ==
    /\ running /\ current_screen = "FileExplorer"
    /\ key.code = "Enter"
    /\ HasSelectedFile /\ SelectedFile # ParentMarker /\ IsDir(SelectedFile)
    /\ notification' = None
    /\ current_dir' = SelectedFile
    /\ files' = Listing(SelectedFile)
    /\ selected' = RefreshSelected(SelectedFile, Some(0))
    /\ UNCHANGED <<running, current_screen, config_file_path, editorVars, health_status, disk,
                   restVars>>

\* Mutant of ExplorerOpenFile: load_config leaves the selection indices where
\* they were.
ExplorerOpenFile_KeepIndices(key) ==
    /\ running /\ current_screen = "FileExplorer"
    /\ key.code = "Enter"
    /\ HasSelectedFile /\ ~IsDir(SelectedFile)
    /\ notification' = None
    /\ current_screen' = "Editing"
    /\ config_file_path' = Some(SelectedFile)
    /\ \E loaded \in parse_config(disk) :
         /\ sections' = BuildSections(loaded)
         /\ health_status' \in HealthOutcomes(BuildSections(loaded))
    /\ UNCHANGED <<selected_section_index, selected_item_index>>
    /\ UNCHANGED <<running, explorerVars, editing_value, edits, disk, restVars>>

\* handle_key_event in the file explorer: Enter on a regular file, which
\* load_config reads.
ExplorerOpenFile(key) ==
    /\ running /\ current_screen = "FileExplorer"
    /\ key.code = "Enter"
    /\ HasSelectedFile /\ ~IsDir(SelectedFile)
    /\ notification' = None
    /\ current_screen' = "Editing"
    /\ config_file_path' = Some(SelectedFile)
    /\ \E loaded \in parse_config(disk) :
         /\ sections' = BuildSections(loaded)
         /\ health_status' \in HealthOutcomes(BuildSections(loaded))
    /\ selected_section_index' = 0
    /\ selected_item_index' = 0
    /\ UNCHANGED <<running, explorerVars, editing_value, edits, disk, restVars>>

\* handle_key_event in the file explorer: any other key, or Enter with nothing
\* to enter.
ExplorerOther(key) ==
    /\ running /\ current_screen = "FileExplorer"
    /\ \/ key.code \notin { "Esc", "Up", "Down", "Enter" }
          /\ ~IsChar(key, "k") /\ ~IsChar(key, "j")
       \/ key.code = "Enter"
          /\ \/ ~HasSelectedFile
             \/ SelectedFile = ParentMarker /\ ~HasParent(current_dir)
    /\ notification' = None
    /\ UNCHANGED <<running, current_screen, config_file_path, explorerVars, editorVars,
                   health_status, disk, restVars>>

\* handle_key_event in the editor: Ctrl+S, which keeps the notification and
\* calls save_config, whose write succeeds.
SaveWritten(key) ==
    /\ running /\ current_screen = "Editing"
    /\ IsSaveCombo(key)
    /\ config_file_path # None
    /\ disk' = [exists |-> TRUE, text |-> SaveContent(sections)]
    /\ notification' = Some("Configuration saved successfully.")
    /\ UNCHANGED <<running, current_screen, config_file_path, explorerVars, editorVars,
                   health_status, otherVars>>

\* The same, with a write that fails (or no path to write to): the Result is
\* dropped.
SaveNotWritten(key) ==
    /\ running /\ current_screen = "Editing"
    /\ IsSaveCombo(key)
    /\ UNCHANGED <<disk, notification>>
    /\ UNCHANGED <<running, current_screen, config_file_path, explorerVars, editorVars,
                   health_status, otherVars>>

EditingSave(key) ==
    /\ SaveWritten(key) \/ SaveNotWritten(key)
    /\ UNCHANGED <<press, save_result>>

\* Mutant of EditingEsc: Esc in the editor ends the loop, as it does in Main.
EditingEsc_Quit(key) ==
    /\ running /\ current_screen = "Editing"
    /\ ~IsSaveCombo(key) /\ key.code = "Esc"
    /\ notification' = None
    /\ running' = FALSE
    /\ UNCHANGED <<current_screen, config_file_path, explorerVars, editorVars, health_status,
                   disk, restVars>>

\* handle_key_event in the editor: Esc.
EditingEsc(key) ==
    /\ running /\ current_screen = "Editing"
    /\ ~IsSaveCombo(key) /\ key.code = "Esc"
    /\ notification' = None
    /\ current_screen' = "Main"
    /\ UNCHANGED <<running, config_file_path, explorerVars, editorVars, health_status, disk,
                   restVars>>

\* Mutant of EditingNextSection: the section index stops at the last section
\* instead of going back to the first.
EditingNextSection_NoWrap(key) ==
    /\ running /\ current_screen = "Editing"
    /\ ~IsSaveCombo(key) /\ key.code \in { "Right", "Tab" }
    /\ notification' = None
    /\ IF sections # <<>>
       THEN /\ selected_section_index' =
                 IF selected_section_index < Len(sections) - 1
                 THEN selected_section_index + 1 ELSE selected_section_index
            /\ selected_item_index' = 0
       ELSE UNCHANGED <<selected_section_index, selected_item_index>>
    /\ UNCHANGED <<running, current_screen, config_file_path, explorerVars, sections,
                   editing_value, edits, health_status, disk, restVars>>

\* handle_key_event in the editor: Right or Tab.
EditingNextSection(key) ==
    /\ running /\ current_screen = "Editing"
    /\ ~IsSaveCombo(key) /\ key.code \in { "Right", "Tab" }
    /\ notification' = None
    /\ IF sections # <<>>
       THEN /\ selected_section_index' =
                 IF selected_section_index < Len(sections) - 1
                 THEN selected_section_index + 1 ELSE 0
            /\ selected_item_index' = 0
       ELSE UNCHANGED <<selected_section_index, selected_item_index>>
    /\ UNCHANGED <<running, current_screen, config_file_path, explorerVars, sections,
                   editing_value, edits, health_status, disk, restVars>>

\* handle_key_event in the editor: Left or BackTab.
EditingPrevSection(key) ==
    /\ running /\ current_screen = "Editing"
    /\ ~IsSaveCombo(key) /\ key.code \in { "Left", "BackTab" }
    /\ notification' = None
    /\ IF sections # <<>>
       THEN /\ selected_section_index' =
                 IF selected_section_index > 0
                 THEN selected_section_index - 1 ELSE Len(sections) - 1
            /\ selected_item_index' = 0
       ELSE UNCHANGED <<selected_section_index, selected_item_index>>
    /\ UNCHANGED <<running, current_screen, config_file_path, explorerVars, sections,
                   editing_value, edits, health_status, disk, restVars>>

\* Mutant of EditingDown: past the last item the selection goes back to the
\* first.
EditingDown_Wrap(key) ==
    /\ running /\ current_screen = "Editing"
    /\ ~IsSaveCombo(key) /\ (key.code = "Down" \/ IsChar(key, "j"))
    /\ notification' = None
    /\ selected_item_index' =
         IF HasSection /\ CurrentItems # <<>> /\ selected_item_index < Len(CurrentItems) - 1
         THEN selected_item_index + 1 ELSE 0
    /\ UNCHANGED <<running, current_screen, config_file_path, explorerVars, sections,
                   selected_section_index, editing_value, edits, health_status, disk, restVars>>

\* handle_key_event in the editor: Down or 'j'.
EditingDown(key) ==
    /\ running /\ current_screen = "Editing"
    /\ ~IsSaveCombo(key) /\ (key.code = "Down" \/ IsChar(key, "j"))
    /\ notification' = None
    /\ selected_item_index' =
         IF HasSection /\ CurrentItems # <<>> /\ selected_item_index < Len(CurrentItems) - 1
         THEN selected_item_index + 1 ELSE selected_item_index
    /\ UNCHANGED <<running, current_screen, config_file_path, explorerVars, sections,
                   selected_section_index, editing_value, edits, health_status, disk, restVars>>

\* handle_key_event in the editor: Up or 'k'.
EditingUp(key) ==
    /\ running /\ current_screen = "Editing"
    /\ ~IsSaveCombo(key) /\ (key.code = "Up" \/ IsChar(key, "k"))
    /\ notification' = None
    /\ selected_item_index' =
         IF selected_item_index > 0 THEN selected_item_index - 1 ELSE selected_item_index
    /\ UNCHANGED <<running, current_screen, config_file_path, explorerVars, sections,
                   selected_section_index, editing_value, edits, health_status, disk, restVars>>

\* The value Enter gives a Bool entry.
ToggledValue(value) == IF value = <<"1">> THEN <<"0">> ELSE <<"1">>

\* handle_key_event in the editor: Enter on a Bool entry.
EditingToggle(key) ==
    /\ running /\ current_screen = "Editing"
    /\ ~IsSaveCombo(key) /\ key.code = "Enter"
    /\ HasItem /\ IsBool(CurrentEntry)
    /\ edits < MaxEdits
    /\ notification' = None
    /\ sections' = WithEntry([CurrentEntry EXCEPT !.value = ToggledValue(@), !.enabled = TRUE])
    /\ edits' = edits + 1
    /\ UNCHANGED <<running, current_screen, config_file_path, explorerVars,
                   selected_section_index, selected_item_index, editing_value, health_status,
                   disk, restVars>>

\* Mutant of EditingOpenValue: the edit buffer is opened with what it held.
EditingOpenValue_KeepBuffer(key) ==
    /\ running /\ current_screen = "Editing"
    /\ ~IsSaveCombo(key) /\ key.code = "Enter"
    /\ HasItem /\ ~IsBool(CurrentEntry)
    /\ notification' = None
    /\ current_screen' = "EditingValue"
    /\ UNCHANGED <<running, config_file_path, explorerVars, sections, selected_section_index,
                   selected_item_index, editing_value, edits, health_status, disk, restVars>>

\* handle_key_event in the editor: Enter on any other entry.
EditingOpenValue(key) ==
    /\ running /\ current_screen = "Editing"
    /\ ~IsSaveCombo(key) /\ key.code = "Enter"
    /\ HasItem /\ ~IsBool(CurrentEntry)
    /\ notification' = None
    /\ editing_value' = CurrentEntry.value
    /\ current_screen' = "EditingValue"
    /\ UNCHANGED <<running, config_file_path, explorerVars, sections, selected_section_index,
                   selected_item_index, edits, health_status, disk, restVars>>

\* Mutant of EditingSpace: the entry is enabled, whatever the flag was.
EditingSpace_Enable(key) ==
    /\ running /\ current_screen = "Editing"
    /\ ~IsSaveCombo(key) /\ IsChar(key, " ")
    /\ HasItem
    /\ edits < MaxEdits
    /\ notification' = None
    /\ sections' = WithEntry([CurrentEntry EXCEPT !.enabled = TRUE])
    /\ edits' = edits + 1
    /\ UNCHANGED <<running, current_screen, config_file_path, explorerVars,
                   selected_section_index, selected_item_index, editing_value, health_status,
                   disk, restVars>>

\* Mutant of EditingSpace: the toggle key also writes the file.
EditingSpace_Autosave(key) ==
    /\ running /\ current_screen = "Editing"
    /\ ~IsSaveCombo(key) /\ IsChar(key, " ")
    /\ HasItem
    /\ edits < MaxEdits
    /\ notification' = None
    /\ sections' = WithEntry([CurrentEntry EXCEPT !.enabled = ~@])
    /\ disk' = [exists |-> TRUE, text |-> SaveContent(sections')]
    /\ edits' = edits + 1
    /\ UNCHANGED <<running, current_screen, config_file_path, explorerVars,
                   selected_section_index, selected_item_index, editing_value, health_status,
                   restVars>>

\* handle_key_event in the editor: Space.
EditingSpace(key) ==
    /\ running /\ current_screen = "Editing"
    /\ ~IsSaveCombo(key) /\ IsChar(key, " ")
    /\ HasItem
    /\ edits < MaxEdits
    /\ notification' = None
    /\ sections' = WithEntry([CurrentEntry EXCEPT !.enabled = ~@])
    /\ edits' = edits + 1
    /\ UNCHANGED <<running, current_screen, config_file_path, explorerVars,
                   selected_section_index, selected_item_index, editing_value, health_status,
                   disk, restVars>>

\* handle_key_event in the editor: any other key, or Enter or Space with no
\* entry under the selection.
EditingOther(key) ==
    /\ running /\ current_screen = "Editing"
    /\ ~IsSaveCombo(key)
    /\ \/ key.code \notin { "Esc", "Right", "Tab", "Left", "BackTab", "Down", "Up", "Enter",
                            "Char" }
       \/ key.code = "Char" /\ key.ch \notin { "j", "k", " " }
       \/ (key.code = "Enter" \/ IsChar(key, " ")) /\ ~HasItem
    /\ notification' = None
    /\ UNCHANGED <<running, current_screen, config_file_path, explorerVars, editorVars,
                   health_status, disk, restVars>>

\* handle_key_event in the edit buffer: Esc.
\* Mutant of ValueEsc: Esc leaves the edit buffer open.
ValueEsc_Stay(key) ==
    /\ running /\ current_screen = "EditingValue"
    /\ key.code = "Esc"
    /\ notification' = None
    /\ UNCHANGED <<running, current_screen, config_file_path, explorerVars, editorVars,
                   health_status, disk, restVars>>

ValueEsc(key) ==
    /\ running /\ current_screen = "EditingValue"
    /\ key.code = "Esc"
    /\ notification' = None
    /\ current_screen' = "Editing"
    /\ UNCHANGED <<running, config_file_path, explorerVars, editorVars, health_status, disk,
                   restVars>>

\* Mutant of ValueEnter: the value is committed and the enabled flag is left as
\* it was.
ValueEnter_KeepFlag(key) ==
    /\ running /\ current_screen = "EditingValue"
    /\ key.code = "Enter"
    /\ edits < MaxEdits
    /\ notification' = None
    /\ sections' = IF HasItem
                   THEN WithEntry([CurrentEntry EXCEPT !.value = editing_value])
                   ELSE sections
    /\ current_screen' = "Editing"
    /\ edits' = edits + 1
    /\ UNCHANGED <<running, config_file_path, explorerVars, selected_section_index,
                   selected_item_index, editing_value, health_status, disk, restVars>>

\* handle_key_event in the edit buffer: Enter.
ValueEnter(key) ==
    /\ running /\ current_screen = "EditingValue"
    /\ key.code = "Enter"
    /\ edits < MaxEdits
    /\ notification' = None
    /\ sections' = IF HasItem
                   THEN WithEntry([CurrentEntry EXCEPT !.value = editing_value, !.enabled = TRUE])
                   ELSE sections
    /\ current_screen' = "Editing"
    /\ edits' = edits + 1
    /\ UNCHANGED <<running, config_file_path, explorerVars, selected_section_index,
                   selected_item_index, editing_value, health_status, disk, restVars>>

\* handle_key_event in the edit buffer: Backspace.
ValueBackspace(key) ==
    /\ running /\ current_screen = "EditingValue"
    /\ key.code = "Backspace"
    /\ notification' = None
    /\ editing_value' = IF editing_value = <<>> THEN <<>>
                        ELSE SubSeq(editing_value, 1, Len(editing_value) - 1)
    /\ UNCHANGED <<running, current_screen, config_file_path, explorerVars, sections,
                   selected_section_index, selected_item_index, edits, health_status, disk,
                   restVars>>

\* handle_key_event in the edit buffer: a character, with any modifier.
ValueChar(key) ==
    /\ running /\ current_screen = "EditingValue"
    /\ key.code = "Char"
    /\ Len(editing_value) < MaxBuf
    /\ notification' = None
    /\ editing_value' = Append(editing_value, key.ch)
    /\ UNCHANGED <<running, current_screen, config_file_path, explorerVars, sections,
                   selected_section_index, selected_item_index, edits, health_status, disk,
                   restVars>>

\* handle_key_event in the edit buffer: any other key.
ValueOther(key) ==
    /\ running /\ current_screen = "EditingValue"
    /\ key.code \notin { "Esc", "Enter", "Backspace", "Char" }
    /\ notification' = None
    /\ UNCHANGED <<running, current_screen, config_file_path, explorerVars, editorVars,
                   health_status, disk, restVars>>

\* handle_mouse_event on the Main screen: a left click on the button.
MouseSelectConfig ==
    /\ running /\ current_screen = "Main"
    /\ current_screen' = "FileExplorer"
    /\ files' = Listing(current_dir)
    /\ selected' = RefreshSelected(current_dir, selected)
    /\ UNCHANGED <<running, config_file_path, current_dir, editorVars, health_status,
                   notification, disk, restVars>>

\* ratatui's Rect and Rect::contains.
Rect(x, y, width, height) == [x |-> x, y |-> y, width |-> width, height |-> height]

contains(rect, mouse) ==
    /\ mouse.column >= rect.x /\ mouse.column < rect.x + rect.width
    /\ mouse.row >= rect.y /\ mouse.row < rect.y + rect.height

\* The rows of the option list's interior, and the terminal that gives them:
\* ui() takes 3 rows for the title and 1 for the footer, render_editing_screen
\* 3 rows for the tabs, and the list's border 2.
MaxRows == 4
TermHeight == MaxRows + 9
TermWidth == 60

\* interactive_rects as the last draw left them.
file_list == Rect(0, 3, TermWidth, TermHeight - 4)
tabs == Rect(0, 3, TermWidth, 3)
config_list == Rect(0, 6, TermWidth \div 2, TermHeight - 7)

\* mouse.row > rect.y && mouse.row < rect.y + rect.height - 1
InsideBorders(rect, mouse) == mouse.row > rect.y /\ mouse.row < rect.y + rect.height - 1

\* (mouse.row as usize).saturating_sub(rect.y as usize + 1)
row_index(rect, mouse) == IF mouse.row > rect.y + 1 THEN mouse.row - (rect.y + 1) ELSE 0

\* ListState::offset() at the time of a press: the renderer keeps the selected
\* row in view and keeps its offset when the terminal grows, so any offset up
\* to the selected index can be there.
FileOffsets == 0..(IF selected = None THEN 0 ELSE selected[1])
ConfigOffsets == 0..selected_item_index

\* section.name.len()
NameLen(name) ==
    CASE name \in { "RPC", "ZMQ" } -> 3
      [] name = "Core" -> 4
      [] name = "Relay" -> 5
      [] name \in { "Custom", "Mining", "Wallet" } -> 6
      [] name = "Network" -> 7
      [] name = "Debugging" -> 9

\* Mutant of TabWalk: the tabs are taken to lie side by side, with no column
\* between one span and the next.
RECURSIVE TabWalk_NoGap(_, _, _, _)
TabWalk_NoGap(secs, i, x, column) ==
    IF i >= Len(secs) THEN None
    ELSE LET width == NameLen(secs[i + 1].name) + 3
         IN  IF column >= x /\ column < x + width THEN Some(i)
             ELSE TabWalk_NoGap(secs, i + 1, x + width, column)

\* The loop over the sections in the tab strip: the first section, from index
\* i with its span starting at x, whose span holds the column.
RECURSIVE TabWalk(_, _, _, _)
TabWalk(secs, i, x, column) ==
    IF i >= Len(secs) THEN None
    ELSE LET width == NameLen(secs[i + 1].name) + 3
         IN  IF column >= x /\ column < x + width THEN Some(i)
             ELSE TabWalk(secs, i + 1, x + width + 1, column)

\* Mutant of ListIndex: the scroll offset is left out.
ListIndex_NoOffset(rect, mouse, offset) == row_index(rect, mouse)

\* let index = row_index + offset
ListIndex(rect, mouse, offset) == row_index(rect, mouse) + offset

\* handle_mouse_event in the file explorer: a left press inside the file list.
FileListPress(mouse, offset) ==
    /\ running /\ current_screen = "FileExplorer"
    /\ contains(file_list, mouse)
    /\ selected' = IF InsideBorders(file_list, mouse)
                      /\ ListIndex(file_list, mouse, offset) < Len(files)
                   THEN Some(ListIndex(file_list, mouse, offset))
                   ELSE selected
    /\ UNCHANGED <<running, current_screen, config_file_path, current_dir, files, editorVars,
                   health_status, notification, disk, otherVars>>

MouseFileList(mouse, offset) == FileListPress(mouse, offset) /\ UNCHANGED <<press, save_result>>

\* handle_mouse_event in the editor: a left press inside the tab strip (which
\* the layout keeps apart from the option list).
TabsPress(mouse) ==
    /\ running /\ current_screen = "Editing"
    /\ contains(tabs, mouse)
    /\ LET hit == IF InsideBorders(tabs, mouse)
                  THEN TabWalk(sections, 0, tabs.x + 1, mouse.column)
                  ELSE None
       IN  IF hit # None
           THEN selected_section_index' = hit[1] /\ selected_item_index' = 0
           ELSE UNCHANGED <<selected_section_index, selected_item_index>>
    /\ UNCHANGED <<running, current_screen, config_file_path, explorerVars, sections,
                   editing_value, edits, health_status, notification, disk,
                   otherVars>>

MouseTabs(mouse) == TabsPress(mouse) /\ UNCHANGED <<press, save_result>>

\* handle_mouse_event in the editor: a left press inside the option list.
ConfigListPress(mouse, offset) ==
    /\ running /\ current_screen = "Editing"
    /\ sections # <<>> /\ contains(config_list, mouse)
    /\ selected_item_index' =
         IF /\ InsideBorders(config_list, mouse)
            /\ HasSection
            /\ ListIndex(config_list, mouse, offset) < Len(CurrentItems)
         THEN ListIndex(config_list, mouse, offset)
         ELSE selected_item_index
    /\ UNCHANGED <<running, current_screen, config_file_path, explorerVars, sections,
                   selected_section_index, editing_value, edits, health_status, notification,
                   disk, otherVars>>

MouseConfigList(mouse, offset) == ConfigListPress(mouse, offset) /\ UNCHANGED <<press, save_result>>

\* The presses handled: along the tab strip's interior row the columns at the
\* ends of the tabs' spans, and down one column every row of the content area.
\* The run loop presses the strip along the row and the lists down the column;
\* the hit testing is checked with every press on every region.
TabColumns == { 0, 1, 7, 8, 9, 17, 18, 19, 24, 25 }
TabPresses == { [column |-> c, row |-> tabs.y + 1] : c \in TabColumns }
ListPresses == { [column |-> 1, row |-> r] : r \in 3..(TermHeight - 2) }
Presses == TabPresses \cup ListPresses

HandleKeyEvent(key) ==
    \/ MainQuit(key) \/ MainEnter(key) \/ MainOther(key)
    \/ ExplorerEsc(key) \/ ExplorerUp(key) \/ ExplorerDown(key)
    \/ ExplorerEnterParent(key) \/ ExplorerEnterDir(key) \/ ExplorerOpenFile(key)
    \/ ExplorerOther(key)
    \/ EditingSave(key) \/ EditingEsc(key)
    \/ EditingNextSection(key) \/ EditingPrevSection(key)
    \/ EditingDown(key) \/ EditingUp(key)
    \/ EditingToggle(key) \/ EditingOpenValue(key) \/ EditingSpace(key) \/ EditingOther(key)
    \/ ValueEsc(key) \/ ValueEnter(key) \/ ValueBackspace(key) \/ ValueOther(key)

HandleMouseEvent ==
    \/ MouseSelectConfig
    \/ \E mouse \in ListPresses, offset \in FileOffsets : MouseFileList(mouse, offset)
    \/ \E mouse \in TabPresses : MouseTabs(mouse)
    \/ \E mouse \in ListPresses, offset \in ConfigOffsets : MouseConfigList(mouse, offset)

Next ==
    \/ \E key \in Keys : HandleKeyEvent(key)
    \/ \E key \in BufferKeys : ValueChar(key)
    \/ HandleMouseEvent

Spec == Init /\ [][Next]_vars

\* -------------------------------------------- App: the run loop, inputs recorded

\* The run loop as far as selecting and saving go: the keys that move between
\* the screens, open a file and move the selections, the save combo and the
\* presses; each press inside a list or the tab strip is recorded with the
\* scroll offset it met, each save with what save_config returned.
Recorded(mouse, offset) == Some([mouse |-> mouse, offset |-> offset])

\* handle_key_event in the file explorer: Enter on "..", when read_dir of the
\* parent fails: refresh_files() finds no ".." to push, the root having no
\* parent, and no entry, and selects nothing.
ExplorerEnterParentUnread(key) ==
    /\ running /\ current_screen = "FileExplorer"
    /\ key.code = "Enter"
    /\ HasSelectedFile /\ SelectedFile = ParentMarker /\ HasParent(current_dir)
    /\ notification' = None
    /\ current_dir' = ParentOf(current_dir)
    /\ files' = <<>>
    /\ selected' = None
    /\ UNCHANGED <<running, current_screen, config_file_path, editorVars, health_status, disk,
                   restVars>>

SelectingKey(key) ==
    \/ MainEnter(key)
    \/ ExplorerEsc(key) \/ ExplorerUp(key) \/ ExplorerDown(key)
    \/ ExplorerEnterParent(key) \/ ExplorerEnterDir(key) \/ ExplorerOpenFile(key)
    \/ ExplorerEnterParentUnread(key)
    \/ EditingEsc(key)
    \/ EditingNextSection(key) \/ EditingPrevSection(key)
    \/ EditingDown(key) \/ EditingUp(key)

NextInput ==
    \/ \E key \in Keys : SelectingKey(key)
    \/ MouseSelectConfig
    \/ \E key \in Keys :
         \/ SaveWritten(key) /\ save_result' = Some("Ok") /\ UNCHANGED press
         \/ SaveNotWritten(key) /\ save_result' = Some("Err") /\ UNCHANGED press
    \/ \E mouse \in Presses :
         \/ \E offset \in FileOffsets :
              /\ FileListPress(mouse, offset)
              /\ press' = Recorded(mouse, offset) /\ UNCHANGED save_result
         \/ TabsPress(mouse) /\ press' = Recorded(mouse, 0) /\ UNCHANGED save_result
         \/ \E offset \in ConfigOffsets :
              /\ ConfigListPress(mouse, offset)
              /\ press' = Recorded(mouse, offset) /\ UNCHANGED save_result

SpecInput == Init /\ [][NextInput]_vars

\* ------------------------------------------------------- claims about saving

SavedNotice == Some("Configuration saved successfully.")

\* The key=value lines of a text: those that are neither blank, nor a comment,
\* nor a header.
KeyValueLines(text) ==
    { text[i] : i \in { j \in 1..Len(text) : text[j] # <<>> /\ text[j][1] \notin { "#", "[" } } }

\* How many key=value lines a text has.
CountKeyValueLines(text) ==
    Cardinality({ j \in 1..Len(text) : text[j] # <<>> /\ text[j][1] \notin { "#", "[" } })

\* The lines the enabled entries of a list stand for, values as held in memory.
EnabledLines(list) == { KeyValueLine(list[i]) : i \in { j \in 1..Len(list) : list[j].enabled } }

\* C2: in the output of to_config_string and in the file App::save_config
\* writes, a line key=value is present if and only if an entry with that key is
\* enabled, with the value the entry holds in memory, one line per enabled
\* entry; right after a successful save the file holds exactly those lines.
C2_WritesEnabledEntries ==
    LET list == Flatten(sections)
        out == to_config_string(list)
        content == SaveContent(sections)
        lines == EnabledLines(list)
        count == Len(enabled_entries(list))
    IN  /\ KeyValueLines(out) = lines
        /\ CountKeyValueLines(out) = count
        /\ KeyValueLines(content) = lines
        /\ CountKeyValueLines(content) = count
        /\ notification = SavedNotice => disk.text = content

\* C2 witness: a file was just saved from sections that hold an edited entry, an
\* enabled entry and a disabled one.
C2_Witness ==
    /\ notification = SavedNotice
    /\ edits > 0
    /\ disk.text \notin InitialTexts
    /\ \E i, j \in 1..Len(Flatten(sections)) :
         Flatten(sections)[i].enabled /\ ~Flatten(sections)[j].enabled

\* The values a text gives a key: what follows "key=" on its lines.
WrittenValues(text, key) ==
    { SubSeq(text[i], Len(key) + 2, Len(text[i])) :
        i \in { j \in 1..Len(text) :
                  /\ Len(text[j]) > Len(key)
                  /\ SubSeq(text[j], 1, Len(key)) = key
                  /\ text[j][Len(key) + 1] = "=" } }

\* C10 (as stated): after a file is loaded and saved, the value written for
\* every Boolean-kind key is "1" or "0".
C10_BoolWrittenOneZero ==
    notification = SavedNotice =>
        \A k \in BoolKeys : WrittenValues(disk.text, k) \subseteq { <<"1">>, <<"0">> }

\* C18 (as stated): disable(key), save, reload: for a catalog key the reloaded
\* Document has an entry with the catalog default, not enabled, whatever value
\* the entry held; for a schema-less key it has no entry.
C18_DisabledRevertsOnReload ==
    \A k \in DocKeys :
        HasKey(entries, k) =>
            \A reloaded \in parse_config([exists |-> TRUE,
                                          text |-> to_config_string(disable(entries, k))]) :
                IF k \in CatalogKeys
                THEN /\ HasKey(reloaded, k)
                     /\ reloaded[get(reloaded, k)].value = SchemaOf(k).default
                     /\ ~reloaded[get(reloaded, k)].enabled
                ELSE ~HasKey(reloaded, k)

\* ------------------------------------------ claims about what the App writes

MainHeader == <<"[", "main", "]">>

\* C17 (as stated): no line that to_config_string produces or that
\* App::save_config writes is a [section] header; each is a comment, a
\* key=value line or a blank line.
C17_NoHeaderLine ==
    LET out == to_config_string(Flatten(sections))
        content == SaveContent(sections)
    IN  /\ \A i \in 1..Len(out) : IsPlainLine(out[i])
        /\ \A i \in 1..Len(content) : IsPlainLine(content[i])

\* C17 (amended): the first line of to_config_string's output is the header
\* [main] and no other line of it is a header; no line App::save_config writes
\* is a header; every line other than that first one is a comment, a key=value
\* line or a blank line.
C17_OnlyMainHeader ==
    LET out == to_config_string(Flatten(sections))
        content == SaveContent(sections)
    IN  /\ out # <<>> /\ out[1] = MainHeader
        /\ \A i \in 2..Len(out) : IsPlainLine(out[i])
        /\ \A i \in 1..Len(content) : IsPlainLine(content[i])
        /\ notification = SavedNotice => \A i \in 1..Len(disk.text) : IsPlainLine(disk.text[i])

\* C17 witness: a file has just been saved from sections with enabled entries,
\* catalog and Custom.
C17_Witness ==
    /\ notification = SavedNotice
    /\ \E i, j \in 1..Len(Flatten(sections)) :
         /\ Flatten(sections)[i].enabled /\ Flatten(sections)[i].schema # None
         /\ Flatten(sections)[j].enabled /\ Flatten(sections)[j].schema = None

\* C19 (as stated): after the save combo, loading the saved file again gives
\* Sections whose enabled entries have the keys and values of the entries
\* enabled at save time, catalog and Custom alike, and no other enabled entry.
C19_InteractiveRoundTrip ==
    notification = SavedNotice =>
        \A loaded \in parse_config(disk) :
            EnabledMap(Flatten(BuildSections(loaded))) = EnabledMap(Flatten(sections))

\* C20 (as stated): the file the save combo writes is the text of a Document
\* holding the Sections' entries: to_config_string of them, that is the groups
\* in the fixed category order under "# <Category>" comments.
C20_SavedThroughDocument ==
    notification = SavedNotice =>
        \/ disk.text = to_config_string(Flatten(sections))
        \/ disk.text = GroupedFrom(enabled_entries(Flatten(sections)), 1, TRUE)

\* ------------------------------------------- claims about the save combo's outcome

\* The save combo was pressed in the editor and its write failed.
SaveFailed == (\E key \in Keys : SaveNotWritten(key)) /\ save_result' = Some("Err")

\* C21 (as stated): when the save combo's write fails, the failure is surfaced
\* as a notification message, which is not the success message, and the screen,
\* the selection indices and every entry are unchanged.
C21_SaveFailureSurfaced ==
    [][SaveFailed =>
         /\ notification' # None /\ notification' # SavedNotice
         /\ UNCHANGED <<current_screen, selected_section_index, selected_item_index, sections>>
      ]_vars

\* A key press that is not the save combo in the editor, and a mouse press.
OtherKeyPress ==
    \/ \E key \in Keys : HandleKeyEvent(key) /\ ~(current_screen = "Editing" /\ IsSaveCombo(key))
    \/ \E key \in BufferKeys : ValueChar(key)

SaveSucceeded == \E key \in Keys : SaveWritten(key)

\* C22 (as stated): a successful save combo sets the notification; the next
\* input that is not itself a save, a key press in any screen or a mouse press,
\* clears it; a save combo does not clear it.
C22_NotificationOneShot ==
    [][/\ SaveSucceeded => notification' = SavedNotice
       /\ OtherKeyPress => notification' = None
       /\ HandleMouseEvent => notification' = None
       /\ (\E key \in Keys : EditingSave(key)) /\ notification # None => notification' # None
      ]_vars

\* ------------------------------------------------ claims about the editor's keys

\* C23: in the editor with N sections, next-section takes the section index i
\* to (i + 1) mod N, so that N presses bring it back, prev-section takes it to
\* (i - 1) mod N, the inverse, both wrapping at the ends, and after either
\* press selected_item_index is 0.
C23_SectionCycling ==
    [][current_screen = "Editing" =>
         \A key \in Keys :
           /\ EditingNextSection(key) =>
                /\ selected_section_index' = (selected_section_index + 1) % Len(sections)
                /\ selected_item_index' = 0
           /\ EditingPrevSection(key) =>
                /\ selected_section_index' =
                     (selected_section_index + Len(sections) - 1) % Len(sections)
                /\ selected_item_index' = 0
      ]_vars

\* C23 witness: the editor shows three sections and the last one is selected,
\* its first item under the selection, after a key press: from the first
\* section the keys get there by prev-section wrapping or by next-section twice.
C23_Witness ==
    /\ current_screen = "Editing"
    /\ Len(sections) = 3
    /\ selected_section_index = 2
    /\ selected_item_index = 0
    /\ notification = None

\* C24 (as stated): confirm on a Boolean-kind entry keeps the screen Editing and
\* leaves the entry enabled, and a second confirm, which toggles the value the
\* first one left, restores the value the entry had, whatever it was loaded
\* with.
C24_ToggleTwiceRestores ==
    [][current_screen = "Editing" =>
         \A key \in Keys :
           EditingToggle(key) =>
               /\ current_screen' = "Editing"
               /\ CurrentEntry'.enabled
               /\ ToggledValue(CurrentEntry'.value) = CurrentEntry.value
      ]_vars

\* C25: in the editor, down on the last item of the selected section and up on
\* item 0 leave selected_item_index as it is; otherwise down adds 1 and up
\* subtracts 1; neither changes selected_section_index or any entry.
C25_ItemNavigationClamped ==
    [][current_screen = "Editing" =>
         \A key \in Keys :
           /\ EditingDown(key) =>
                /\ selected_item_index' =
                     IF selected_item_index = Len(CurrentItems) - 1
                     THEN selected_item_index ELSE selected_item_index + 1
                /\ UNCHANGED <<selected_section_index, sections>>
           /\ EditingUp(key) =>
                /\ selected_item_index' =
                     IF selected_item_index = 0 THEN 0 ELSE selected_item_index - 1
                /\ UNCHANGED <<selected_section_index, sections>>
      ]_vars

\* C25 witness: after a key press in the editor the selection is on the last
\* item of a section of several items, where down has taken it.
C25_Witness ==
    /\ current_screen = "Editing"
    /\ HasItem
    /\ selected_item_index > 0
    /\ selected_item_index = Len(CurrentItems) - 1
    /\ notification = None

\* C26: confirm in the editor on an entry that is not Boolean-kind copies the
\* entry's value into the edit buffer and moves to EditingValue with no entry
\* changed; confirm in EditingValue gives the addressed entry the buffer as its
\* value and enabled = true and returns to Editing; cancel in EditingValue
\* returns to Editing with the addressed entry as it was.
C26_ValueEditing ==
    [][(current_screen = "Editing" \/ current_screen = "EditingValue") =>
         \A key \in Keys :
           /\ EditingOpenValue(key) =>
                /\ editing_value' = CurrentEntry.value
                /\ current_screen' = "EditingValue"
                /\ sections' = sections
           /\ ValueEnter(key) =>
                /\ CurrentEntry'.value = editing_value
                /\ CurrentEntry'.enabled
                /\ current_screen' = "Editing"
           /\ ValueEsc(key) =>
                /\ current_screen' = "Editing"
                /\ CurrentEntry'.value = CurrentEntry.value
                /\ CurrentEntry'.enabled = CurrentEntry.enabled
      ]_vars

\* C26 witness: back in the editor, the addressed entry is a schema-less one
\* holding the typed buffer, which only a confirm in EditingValue gives it.
C26_Witness ==
    /\ current_screen = "Editing"
    /\ HasItem
    /\ CurrentEntry.schema = None
    /\ editing_value = <<"s">>
    /\ CurrentEntry.value = editing_value
    /\ CurrentEntry.enabled

\* Whether two lists of sections differ at most in the item at (sec, item),
\* both counted from 0.
SameButAt(before, after, sec, item) ==
    /\ Len(after) = Len(before)
    /\ \A i \in 1..Len(before) :
         /\ after[i].name = before[i].name
         /\ Len(after[i].items) = Len(before[i].items)
         /\ \A j \in 1..Len(before[i].items) :
              (i # sec + 1 \/ j # item + 1) => after[i].items[j] = before[i].items[j]

Occurrences(list, e) == Cardinality({ i \in 1..Len(list) : list[i] = e })

\* The place of a section name in the alphabet of the names.
NameRank(name) == CHOOSE n \in 1..Len(NameOrder) : NameOrder[n] = name

\* C28: confirm on a regular file in the file explorer leaves the screen
\* Editing and both selection indices 0; every parsed entry is in the Sections
\* as often as it was parsed, under the Section named after its schema's
\* category, "Custom" without a schema; no Section is empty; the Sections'
\* names are strictly ascending.
C28_LoadBuildsSections ==
    [][current_screen = "FileExplorer" =>
         \A key \in Keys :
           ExplorerOpenFile(key) =>
               /\ current_screen' = "Editing"
               /\ selected_section_index' = 0 /\ selected_item_index' = 0
               /\ \E loaded \in parse_config(disk) :
                    \A e \in { loaded[i] : i \in 1..Len(loaded) }
                             \cup { Flatten(sections')[i] : i \in 1..Len(Flatten(sections')) } :
                        Occurrences(Flatten(sections'), e) = Occurrences(loaded, e)
               /\ \A i \in 1..Len(sections') :
                    /\ sections'[i].items # <<>>
                    /\ \A j \in 1..Len(sections'[i].items) :
                         sections'[i].name =
                             IF sections'[i].items[j].schema = None THEN "Custom"
                             ELSE sections'[i].items[j].schema[1].category
               /\ \A i, j \in 1..Len(sections') :
                    i < j => NameRank(sections'[i].name) < NameRank(sections'[j].name)
      ]_vars

\* C28 witness: a file has been opened and not yet edited: the editor shows
\* its Sections, a Custom one among them, with both indices 0.
C28_Witness ==
    /\ current_screen = "Editing"
    /\ edits = 0
    /\ selected_section_index = 0 /\ selected_item_index = 0
    /\ Len(sections) = 3
    /\ \E i \in 1..Len(sections) : sections[i].name = "Custom"
    /\ sections \in { BuildSections(loaded) : loaded \in parse_config(disk) }

\* ------------------------------------------------ claims about the hit testing

\* What a press inside a list must leave alone: the screen, the loaded file,
\* the directory and its listing, the entries.
ListPressFrame ==
    UNCHANGED <<current_screen, config_file_path, current_dir, files, sections, disk,
                editing_value, selected_section_index>>

\* C29: a press in the interior of the file list or of the option list, at
\* index = row - region.y - 1 + scroll offset, makes index the selected index
\* of that list when the list has such an item and changes no selection
\* otherwise; no press inside a list changes the screen, the loaded file, the
\* directory or any entry.
C29_ListPressSelects ==
    [][\A mouse \in Presses :
         /\ \A offset \in FileOffsets :
              FileListPress(mouse, offset) /\ press' = Recorded(mouse, offset) =>
                  /\ ListPressFrame /\ UNCHANGED selected_item_index
                  /\ InsideBorders(file_list, mouse) =>
                       selected' = IF mouse.row - file_list.y - 1 + offset < Len(files)
                                   THEN Some(mouse.row - file_list.y - 1 + offset)
                                   ELSE selected
         /\ \A offset \in ConfigOffsets :
              ConfigListPress(mouse, offset) /\ press' = Recorded(mouse, offset) =>
                  /\ ListPressFrame /\ UNCHANGED selected
                  /\ InsideBorders(config_list, mouse) =>
                       selected_item_index' =
                           IF mouse.row - config_list.y - 1 + offset < Len(CurrentItems)
                           THEN mouse.row - config_list.y - 1 + offset
                           ELSE selected_item_index
      ]_vars

\* C29 witness: a press on the first row of the option list's interior, met
\* with the list scrolled by one, has been handled, and the second item is
\* the selected one.
C29_Witness ==
    /\ current_screen = "Editing"
    /\ press # None
    /\ contains(config_list, press[1].mouse)
    /\ press[1].mouse.row = config_list.y + 1
    /\ press[1].offset = 1
    /\ selected_item_index = 1

\* The first column of the span of section i (from 0) in the tab strip: one
\* past the strip's left edge, after the spans before it, each of its label's
\* length plus 3 columns, and one column after each.
RECURSIVE SpanStart(_, _)
SpanStart(secs, i) ==
    IF i = 0 THEN tabs.x + 1
    ELSE SpanStart(secs, i - 1) + NameLen(secs[i].name) + 3 + 1

InSpan(secs, i, column) ==
    /\ column >= SpanStart(secs, i)
    /\ column < SpanStart(secs, i) + NameLen(secs[i + 1].name) + 3

\* C30: a press in the interior of the tab strip selects the first section
\* whose span holds the press's column and sets selected_item_index to 0; a
\* press in no section's span changes neither index; the Sections themselves
\* and the screen stay as they are.
C30_TabPressSelects ==
    [][\A mouse \in Presses :
         TabsPress(mouse) /\ press' = Recorded(mouse, 0) /\ InsideBorders(tabs, mouse) =>
             LET hits == { i \in 0..(Len(sections) - 1) : InSpan(sections, i, mouse.column) }
             IN  /\ IF hits # {}
                    THEN /\ selected_section_index' \in hits
                         /\ \A i \in hits : selected_section_index' <= i
                         /\ selected_item_index' = 0
                    ELSE UNCHANGED <<selected_section_index, selected_item_index>>
                 /\ UNCHANGED <<current_screen, sections, selected, current_dir, files>>
      ]_vars

\* C30 witness: a press on the tab strip's interior row inside the third
\* section's span has been handled, and the third section is selected with
\* its first item.
C30_Witness ==
    /\ current_screen = "Editing"
    /\ press # None
    /\ InsideBorders(tabs, press[1].mouse)
    /\ Len(sections) = 3
    /\ InSpan(sections, 2, press[1].mouse.column)
    /\ selected_section_index = 2
    /\ selected_item_index = 0

\* ------------------------------------------------------ claims about the loop

\* C31: the first screen is Main; running becomes false only by a step taken
\* in Main that is the quit key's; once running is false nothing changes any
\* more.
C31_QuitOnlyFromMain ==
    /\ (running = TRUE /\ current_screen = "Main")
    /\ [][/\ running = TRUE
          /\ running' = FALSE => current_screen = "Main" /\ \E key \in Keys : MainQuit(key)
         ]_vars

\* C31 witness: the loop has ended, on the Main screen, with a file loaded and
\* edited before: the editor was left for Main before the quit key was pressed.
C31_Witness ==
    /\ ~running
    /\ current_screen = "Main"
    /\ sections # <<>>
    /\ edits > 0

\* A key that is no trigger of the current screen: in Main neither quit nor
\* confirm; in the file explorer neither cancel, up, down nor confirm; in the
\* editor none of its ten keys nor the save combo; in the edit buffer neither
\* cancel, confirm, backspace nor a printable character, which a character
\* sent with CONTROL held is not.
Unlisted(key) ==
    CASE current_screen = "Main" ->
           ~IsChar(key, "q") /\ key.code \notin { "Esc", "Enter" }
      [] current_screen = "FileExplorer" ->
           /\ key.code \notin { "Esc", "Up", "Down", "Enter" }
           /\ ~IsChar(key, "k") /\ ~IsChar(key, "j")
      [] current_screen = "Editing" ->
           /\ ~IsSaveCombo(key)
           /\ key.code \notin { "Esc", "Right", "Tab", "Left", "BackTab", "Down", "Up", "Enter" }
           /\ ~IsChar(key, "j") /\ ~IsChar(key, "k") /\ ~IsChar(key, " ")
      [] OTHER ->
           /\ key.code \notin { "Esc", "Enter", "Backspace" }
           /\ ~(key.code = "Char" /\ ~key.ctrl)

\* The step handle_key_event takes on a key.
KeyStep(key) == HandleKeyEvent(key) \/ (key \in BufferKeys /\ ValueChar(key))

\* C32 (as stated): a key that is no trigger of the current screen changes
\* neither the screen, the selection indices, the edit buffer, the file-list
\* cursor, the current directory nor any entry.
C32_UnlistedKeyIgnored ==
    [][\A key \in Keys :
         Unlisted(key) /\ KeyStep(key) =>
             UNCHANGED <<current_screen, selected_section_index, selected_item_index,
                         editing_value, selected, current_dir, sections>>
      ]_vars

\* ------------------------------------------------ claims about the file list

\* The cursor after n presses of down, and of up.
RECURSIVE DownTimes(_, _, _)
DownTimes(fs, sel, n) == IF n = 0 THEN sel ELSE DownTimes(fs, select_next(fs, sel), n - 1)

RECURSIVE UpTimes(_, _, _)
UpTimes(fs, sel, n) == IF n = 0 THEN sel ELSE UpTimes(fs, select_previous(fs, sel), n - 1)

\* C33: in the file explorer with n > 0 files and the cursor on row i, down
\* moves the cursor to (i + 1) mod n and up to (i - 1) mod n, n presses of
\* either end on row i again and up undoes down; with no file neither key
\* changes anything; Enter on a directory or on the parent marker leaves the
\* cursor on row 0 of the refreshed listing, on nothing when that is empty.
C33_FileCursor ==
    [][current_screen = "FileExplorer" =>
         \A key \in Keys :
           /\ ExplorerDown(key) =>
                IF files = <<>> THEN UNCHANGED <<selected, files, current_dir>>
                ELSE /\ selected # None
                     /\ selected' = Some((selected[1] + 1) % Len(files))
                     /\ DownTimes(files, selected, Len(files)) = selected
                     /\ select_previous(files, selected') = selected
           /\ ExplorerUp(key) =>
                IF files = <<>> THEN UNCHANGED <<selected, files, current_dir>>
                ELSE /\ selected # None
                     /\ selected' = Some((selected[1] + Len(files) - 1) % Len(files))
                     /\ UpTimes(files, selected, Len(files)) = selected
                     /\ select_next(files, selected') = selected
           /\ (\/ ExplorerEnterDir(key) \/ ExplorerEnterParent(key)
               \/ ExplorerEnterParentUnread(key)) =>
                selected' = IF files' = <<>> THEN None ELSE Some(0)
      ]_vars

\* C33 witness: in the directory of two files the cursor is on the second
\* one, and no press was handled: down or up has taken it there from row 0.
C33_Witness ==
    /\ current_screen = "FileExplorer"
    /\ Len(files) = 2
    /\ selected = Some(1)
    /\ press = None

\* ------------------------------------------------ claims about the liveness probe

\* C34 (as stated): after a load, whatever the probe meets outside the
\* program, health_status is None (Unknown) when no enabled pid entry is
\* configured and when the pid file is missing, and it is Some(true) or
\* Some(false) (Running, Stopped) only when a pid entry is enabled, its file
\* exists, its content reads as a pid and the process query completed.
C34_HealthTriState ==
    [][current_screen = "FileExplorer" =>
         \A key \in Keys :
           ExplorerOpenFile(key) =>
               /\ health_status' \in HealthOutcomes(sections')
               /\ \A env \in ProbeEnvs :
                    LET configured == find_config_value(sections', <<"pid">>) # None
                        present == configured /\ PidPath(sections') \in env.existing
                    IN  /\ ~present => check_health(sections', env) = None
                        /\ check_health(sections', env) # None =>
                               present /\ env.pid_read /\ env.query # "error"
      ]_vars

\* ------------------------------------------- claims about the selection indices

\* C35: whenever the screen is Editing or EditingValue there is a section,
\* selected_section_index addresses one and selected_item_index addresses an
\* item of it.
C35_IndicesInBounds ==
    current_screen \in { "Editing", "EditingValue" } =>
        /\ sections # <<>>
        /\ selected_section_index < Len(sections)
        /\ selected_item_index < Len(sections[selected_section_index + 1].items)

\* C35 witness: the editor shows the two sections a reload of the saved file
\* gives, one fewer than before, and the last of them is selected.
C35_Witness ==
    /\ current_screen = "Editing"
    /\ Len(sections) = 2
    /\ selected_section_index = 1
    /\ selected_item_index = Len(CurrentItems) - 1

\* ----------------------------------------------- claims about an edit session

\* C36: the screen becomes EditingValue only with the addressed entry's value
\* copied into the edit buffer; while it is EditingValue no step changes the
\* selection indices, a step changes the buffer only by dropping its last
\* character or appending one, and the entries change only when the screen
\* returns to Editing, at most in the addressed entry, which then holds the
\* buffer if it differs from before.
C36_EditCommittedWhereStarted ==
    [][/\ current_screen # "EditingValue" /\ current_screen' = "EditingValue" =>
            /\ editing_value' = CurrentEntry.value
            /\ UNCHANGED <<selected_section_index, selected_item_index, sections>>
       /\ current_screen = "EditingValue" =>
            /\ UNCHANGED <<selected_section_index, selected_item_index>>
            /\ current_screen' \in { "EditingValue", "Editing" }
            /\ \/ editing_value' = editing_value
               \/ /\ editing_value # <<>>
                  /\ editing_value' = SubSeq(editing_value, 1, Len(editing_value) - 1)
               \/ \E key \in Keys : key.code = "Char" /\ editing_value' = Append(editing_value, key.ch)
            /\ current_screen' = "EditingValue" => sections' = sections
            /\ sections' # sections =>
                 /\ SameButAt(sections, sections', selected_section_index, selected_item_index)
                 /\ CurrentEntry'.value = editing_value /\ editing_value' = editing_value
      ]_vars

\* C36 witness: back in the editor the addressed entry rpcport, loaded with
\* 18332, is enabled with the empty value the buffer holds: its value was
\* copied, erased by backspace and committed.
C36_Witness ==
    /\ current_screen = "Editing"
    /\ HasItem
    /\ CurrentEntry.key = <<"rpcport">>
    /\ CurrentEntry.value = <<>>
    /\ editing_value = <<>>
    /\ CurrentEntry.enabled
    /\ edits = 1

\* ----------------------------------------------- claims about what an edit touches

\* Whether a step is a load: the file explorer opening a file.
IsLoad == current_screen = "FileExplorer" /\ current_screen' = "Editing"

\* C37: a step that is no load leaves the sections with their names, their
\* number of items and every item but the one the selection indices addressed
\* before it, of which it changes at most the value and the enabled flag; a
\* step taken outside the editor and the edit buffer that is no load changes
\* no entry at all.
C37_EditsTouchOneEntry ==
    [][~IsLoad =>
         /\ current_screen \notin { "Editing", "EditingValue" } => sections' = sections
         /\ sections' # sections =>
              /\ SameButAt(sections, sections', selected_section_index, selected_item_index)
              /\ HasItem
              /\ sections'[selected_section_index + 1].items[selected_item_index + 1].key
                     = CurrentEntry.key
              /\ sections'[selected_section_index + 1].items[selected_item_index + 1].schema
                     = CurrentEntry.schema
      ]_vars

\* C37 witness: in the editor the second item of the first section, txindex,
\* is the one an edit changed, the first item being as the load left it.
C37_Witness ==
    /\ current_screen = "Editing"
    /\ edits = 1
    /\ selected_section_index = 0 /\ selected_item_index = 1
    /\ CurrentEntry.key = <<"txindex">>
    /\ CurrentEntry.value = <<"1">>
    /\ sections[1].items[1] = [key |-> <<"pid">>, value |-> <<>>,
                               schema |-> Some(SchemaOf(<<"pid">>)), enabled |-> FALSE]

\* ----------------------------------------------- claims about what writes the file

\* C38: the file changes only in a step that is the save combo's in the
\* editor, which writes the entries as they are then; a load leaves the file
\* as it is and gives the Sections of what the file holds, whatever the
\* entries were before it.
C38_OnlySaveWrites ==
    [][/\ disk' # disk =>
            /\ current_screen = "Editing"
            /\ \E key \in Keys : IsSaveCombo(key) /\ SaveWritten(key)
            /\ disk'.text = SaveContent(sections)
       /\ IsLoad =>
            /\ disk' = disk
            /\ sections' \in { BuildSections(loaded) : loaded \in parse_config(disk) }
      ]_vars

\* C38 witness: the file holds what a save wrote, the editor shows the two
\* sections a later load of it gave, and an entry has been edited since: the
\* Sections differ from the file's, which no step but a save will change.
C38_Witness ==
    /\ current_screen = "Editing"
    /\ disk.text \notin InitialTexts
    /\ Len(sections) = 2
    /\ edits = 1
    /\ sections \notin { BuildSections(loaded) : loaded \in parse_config(disk) }

\* ------------------------------------------------- claims about leaving a screen

\* C39: while the loop runs, the cancel key is handled in every screen: in
\* EditingValue it leads to Editing, in Editing and in the file explorer to
\* Main, and in Main it ends the loop, as the quit key does, so that at most
\* three presses end the loop from any state; and a step leads into Editing
\* only from EditingValue or, being a load, from the file explorer, never from
\* Main.
C39_NoScreenTraps ==
    /\ [](running = TRUE =>
            /\ current_screen = "EditingValue" =>
                   ENABLED (ValueEsc(Key("Esc")) /\ current_screen' = "Editing" /\ running')
            /\ current_screen = "Editing" =>
                   ENABLED (EditingEsc(Key("Esc")) /\ current_screen' = "Main" /\ running')
            /\ current_screen = "FileExplorer" =>
                   ENABLED (ExplorerEsc(Key("Esc")) /\ current_screen' = "Main" /\ running')
            /\ current_screen = "Main" =>
                   /\ ENABLED (MainQuit(Key("Esc")) /\ ~running')
                   /\ ENABLED (MainQuit(CharKey("q")) /\ ~running'))
    /\ [][/\ current_screen # "Editing" /\ current_screen' = "Editing" =>
               \/ current_screen = "EditingValue"
               \/ current_screen = "FileExplorer" /\ \E key \in Keys : ExplorerOpenFile(key)
          /\ current_screen # "EditingValue" /\ current_screen' = "EditingValue" =>
               current_screen = "Editing"
         ]_vars

\* C39 witness: the loop has ended on Main with a text in the edit buffer that
\* no confirm committed: the buffer was left by cancel, the editor by cancel,
\* and the quit key ended the loop.
C39_Witness ==
    /\ ~running
    /\ current_screen = "Main"
    /\ editing_value # <<>>
    /\ edits = 0

\* ------------------------------------------- claims about the Document's keys

\* Whether no two entries of a list share a key.
UniqueKeys(list) == \A i, j \in 1..Len(list) : list[i].key = list[j].key => i = j

\* C40: the Document BitcoinConfigFile::new builds has no key twice, and a call
\* of set, enable, disable, add_custom or remove on a Document with no key
\* twice leaves one with no key twice, in which get addresses the only entry
\* with the key; remove then deletes at most one entry.
C40_KeysUnique ==
    /\ UniqueKeys(entries)
    /\ [][UniqueKeys(entries)
          /\ ret'.op \in { "set", "enable", "disable", "add_custom", "remove" }
          /\ nops' = nops + 1 =>
              /\ UniqueKeys(entries')
              /\ \A k \in DocKeys \cup CatalogKeys :
                   { i \in 1..Len(entries') : entries'[i].key = k }
                       = IF get(entries', k) = 0 THEN {} ELSE { get(entries', k) }
              /\ Called("remove") => Len(entries') >= Len(entries) - 1
         ]_vars

\* C40 witness: the first call on the new Document was add_custom of a key
\* the catalog lacks: the Document has one entry more, and no key twice.
C40_Witness ==
    /\ nops = 1
    /\ ret.op = "add_custom"
    /\ Len(entries) = Len(DefaultEntries) + 1
    /\ UniqueKeys(entries)
    /\ entries[Len(entries)].schema = None

====
